---- MODULE Spec2Model ----
(***************************************************************************)
(* A model of the resilience core of the belief-engine pipeline:           *)
(*   RateLimiter        src/src/utils/parallel.py                          *)
(*   ParallelExecutor   src/src/utils/parallel.py                          *)
(*   CheckpointManager  src/src/utils/checkpoint.py                        *)
(*   retry wrappers     src/src/utils/retry.py                             *)
(*   QualityMetrics     src/src/utils/quality_scorer.py                    *)
(* Each component has its own variables and its own specification; a       *)
(* specification leaves the variables of the other components at their     *)
(* initial values.                                                         *)
(***************************************************************************)
EXTENDS Integers, Sequences, FiniteSets, TLC

VARIABLES
  \* ---- RateLimiter (parallel.py 16-113) ----
  rpm,            \* self.rpm
  tpm,            \* self.tpm
  request_times,  \* self.request_times: deque of timestamps
  token_counts,   \* self.token_counts: deque of <<timestamp, token_count>>
  lock,           \* self.lock: 0 when free, else the thread holding it
  now,            \* the clock time.time() reads, in tenths of a second
  lpc,            \* per thread: position inside wait_if_needed
  l_tokens,       \* per thread: the argument tokens
  l_current_time, \* per thread: the local current_time
  l_wait_time,    \* per thread: the local wait_time, kept as the value returned
  recorded,       \* history: every <<timestamp, tokens>> ever recorded
  \* ---- ParallelExecutor (parallel.py 119-226) ----
  fn,             \* the mapped function: item -> value or "Raise"
  items,          \* the items list
  max_workers,    \* self.max_workers
  enable_parallel,\* config.ENABLE_PARALLEL
  mpc,            \* position of the thread that called map
  results,        \* the local results list
  task,           \* per index: "new", "queued", "running", "done", "collected"
  mapHist,        \* history: the outcome of every finished map call
  doneOrder,      \* history: the indices in the order as_completed yielded them
  \* ---- CheckpointManager (checkpoint.py 16-176) ----
  checkpoint_enabled, \* config.CHECKPOINT_ENABLED
  files,          \* the checkpoint directory: file name -> content
  ck,             \* per saver: position and locals of save
  ckRet,          \* the result of the last completed call
  savers,         \* the threads that use the manager
  nSaves,         \* history: number of save calls started
  lastSaved,      \* history: per phase, the data of its last completed save
  \* ---- retry wrappers (retry.py 15-158) ----
  wrapperKind,    \* "backoff" (retry_with_backoff) or "openai" (retry_openai_call)
  max_retries,    \* the closure's max_retries
  caught,         \* retry_with_backoff's exceptions tuple, as a set of classes
  rtpc,           \* position inside wrapper
  retries,        \* the local retries
  raisedErr,      \* the exception being handled or propagated
  retResult,      \* the value wrapper returned
  opLog,          \* history: the outcome of every invocation of func
  sleeps,         \* history: every time.sleep argument, in order
  backoff_factor, \* retry_with_backoff's backoff_factor
  max_wait,       \* retry_with_backoff's max_wait
  on_retry,       \* retry_with_backoff's on_retry: "None" or "increment"
  count,          \* RetryCounter.count
  \* ---- QualityMetrics (quality_scorer.py 14-70) ----
  errors_count,   \* self.errors_count
  parsing_errors, \* self.parsing_errors
  api_errors,     \* self.api_errors
  retries_count,  \* self.retries_count
  malformed_beliefs_count,   \* self.malformed_beliefs_count
  registry_mismatches_count, \* self.registry_mismatches_count
  warnings,       \* self.warnings
  qpc,            \* per worker: position inside the add_* method it runs
  q_op,           \* per worker: the add_* method it runs
  q_val,          \* per worker: the counter value it has read
  qDone,          \* history: per method, the number of calls that returned
  \* ---- QualityScorer (quality_scorer.py 76-185) ----
  thresholds,     \* config.QUALITY_THRESHOLDS, in tenths of a point
  spc,            \* position of generate_report
  score,          \* the local score of generate_report, in tenths of a point
  grade,          \* the local grade of generate_report
  \* ---- cleanup_old_checkpoints (checkpoint.py 220-257) ----
  entries,        \* config.CHECKPOINTS_DIR: entry name -> [kind, mtime, files]
  cl_pc,          \* position inside cleanup_old_checkpoints
  cl_days,        \* the argument days
  cl_todo,        \* the entries iterdir() has still to yield
  cl_before,      \* history: the directory when cleanup was called
  \* ---- a map over wrapped operations (parallel.py 166-192, retry.py 100-157) ----
  e_func,         \* what is mapped: the wrapped operation or _extract_batch
  e_kind,         \* per item: how the operation behaves for it
  e_pc,           \* position of the thread that called map
  e_task,         \* per index: "queued", "running", "done", "collected"
  e_thread,       \* per pool thread: the task it runs and the wrapper's locals
  e_out,          \* per index: what the future holds
  e_results,      \* the local results list
  \* ---- run_pipeline (main.py 84-230) ----
  pl_pc,          \* position of run_pipeline
  pl_next,        \* the index in CHECKPOINT_PHASES of the stage it is at
  pl_run,         \* history: number of times the pipeline was started
  pl_resume,      \* args.resume
  pl_last,        \* history: index of the last checkpoint present at the start
  pl_exec,        \* history: the stages executed since the start
  \* WorkerUtilizationTracker and the threads that use it
  active_workers, \* self.active_workers
  trk_lock,       \* self.lock: 0 when free, else the thread that holds it
  tpc,            \* tpc[w]: where thread w is in __enter__, the body or __exit__
  t_val,          \* t_val[w]: the value of active_workers thread w has read
  t_out,          \* t_out[w]: how the last with block of thread w ended
  \* ParallelExecutor.map_with_rate_limit
  rm_limiter,     \* self.rate_limiter is not None
  rm_estimator,   \* the argument token_estimator
  rm_stage,       \* rm_stage[i]: where the call made for item i is
  rm_thread,      \* rm_thread[i]: the thread in wait_if_needed for item i
  rm_waits        \* history: the arguments of the wait_if_needed calls for item i

limVars == <<rpm, tpm, request_times, token_counts, lock, now, lpc, l_tokens,
             l_current_time, l_wait_time, recorded>>
execVars == <<fn, items, max_workers, enable_parallel, mpc, results, task, mapHist,
              doneOrder>>
ckptVars == <<checkpoint_enabled, files, ck, ckRet, savers, nSaves, lastSaved>>
retryVars == <<wrapperKind, max_retries, caught, rtpc, retries, raisedErr,
               retResult, opLog, sleeps, backoff_factor, max_wait, on_retry, count>>
qualVars == <<errors_count, parsing_errors, api_errors, retries_count,
              malformed_beliefs_count, registry_mismatches_count, warnings,
              qpc, q_op, q_val, qDone>>
scoreVars == <<thresholds, spc, score, grade>>
cleanVars == <<entries, cl_pc, cl_days, cl_todo, cl_before>>
e2eVars == <<e_func, e_kind, e_pc, e_task, e_thread, e_out, e_results>>
pipeVars == <<pl_pc, pl_next, pl_run, pl_resume, pl_last, pl_exec>>
trackVars == <<active_workers, trk_lock, tpc, t_val, t_out>>
rateVars == <<rm_limiter, rm_estimator, rm_stage, rm_thread, rm_waits>>
vars == <<limVars, execVars, ckptVars, retryVars, qualVars,
          cleanVars, scoreVars, e2eVars, pipeVars, trackVars, rateVars>>

Max(a, b) == IF a >= b THEN a ELSE b
Min(a, b) == IF a <= b THEN a ELSE b

RECURSIVE SumTokens(_)
SumTokens(s) == IF s = <<>> THEN 0 ELSE s[1][2] + SumTokens(Tail(s))

(***************************************************************************)
(* RateLimiter.  Time is counted in tenths of a second, so that the 0.1 s  *)
(* buffer of lines 83 and 92 is one unit and the 60 s window is 600.       *)
(***************************************************************************)
Window == 600
Margin == 1

MaxRpm == 2
MaxTpm == 2
MaxTokens == MaxTpm + 1
MaxCalls == MaxRpm + 1
MaxTime == 2 * Window + 100
LimThreads == {1, 2}
TickSteps == {300}

\* _clean_old_entries, request window: pop from the left while older than cutoff
RECURSIVE CleanTimes(_, _)
CleanTimes(q, current_time) ==
  IF q # <<>> /\ q[1] < current_time - Window
  THEN CleanTimes(Tail(q), current_time) ELSE q

\* _clean_old_entries, unit window
RECURSIVE CleanTokens(_, _)
CleanTokens(q, current_time) ==
  IF q # <<>> /\ q[1][1] < current_time - Window
  THEN CleanTokens(Tail(q), current_time) ELSE q

RpmWaitNoBuffer(current_time, oldest_request) ==
  Window - (current_time - oldest_request)

\* line 83: rpm_wait = 60 - (current_time - oldest_request) + 0.1
RpmWait(current_time, oldest_request) ==
  Window - (current_time - oldest_request) + Margin

\* line 92: tpm_wait = 60 - (current_time - oldest_token_time) + 0.1
TpmWait(current_time, oldest_token_time) ==
  Window - (current_time - oldest_token_time) + Margin

WaitTimeSumsBoth(rq, tq, current_time, tokens, r, u) ==
  LET w1 == IF Len(rq) >= r THEN Max(0, RpmWait(current_time, rq[1])) ELSE 0
      oldest_token_time == IF tq # <<>> THEN tq[1][1] ELSE current_time
      w2 == IF tokens > 0 /\ SumTokens(tq) + tokens > u
            THEN w1 + TpmWait(current_time, oldest_token_time) ELSE w1
  IN w2

\* lines 77-93: the wait computed from the two pruned windows
WaitTime(rq, tq, current_time, tokens, r, u) ==
  LET w1 == IF Len(rq) >= r THEN Max(0, RpmWait(current_time, rq[1])) ELSE 0
      oldest_token_time == IF tq # <<>> THEN tq[1][1] ELSE current_time
      w2 == IF tokens > 0 /\ SumTokens(tq) + tokens > u
            THEN Max(w1, TpmWait(current_time, oldest_token_time)) ELSE w1
  IN w2

LimInit ==
  /\ rpm \in 1..MaxRpm
  /\ tpm \in 1..MaxTpm
  /\ request_times = <<>>
  /\ token_counts = <<>>
  /\ lock = 0
  /\ now = 0
  /\ lpc = [t \in LimThreads |-> "idle"]
  /\ l_tokens = [t \in LimThreads |-> 0]
  /\ l_current_time = [t \in LimThreads |-> 0]
  /\ l_wait_time = [t \in LimThreads |-> 0]
  /\ recorded = <<>>

\* the limiter right after construction with the smallest limits, never called
LimIdle ==
  /\ LimInit
  /\ rpm = 1
  /\ tpm = 1

\* number of calls started so far
LimCalls == Len(recorded) + Cardinality({t \in LimThreads : lpc[t] # "idle"})

\* a thread calls wait_if_needed(tokens) and reaches `with self.lock`; the
\* threads are alike, so the idle thread with the smallest number is taken
LimCall(t, tokens) ==
  /\ lpc[t] = "idle"
  /\ \A u \in LimThreads : u < t => lpc[u] # "idle"
  /\ LimCalls < MaxCalls
  /\ lpc' = [lpc EXCEPT ![t] = "lock"]
  /\ l_tokens' = [l_tokens EXCEPT ![t] = tokens]
  /\ l_wait_time' = [l_wait_time EXCEPT ![t] = 0]
  /\ UNCHANGED <<rpm, tpm, request_times, token_counts, lock, now,
                 l_current_time, recorded>>
  /\ UNCHANGED <<execVars, ckptVars, retryVars, qualVars,
                 cleanVars, scoreVars, e2eVars, pipeVars,
                 trackVars, rateVars>>

LimEnterNoLock(t) ==
  /\ lpc[t] = "lock"
  /\ LET rq == CleanTimes(request_times, now)
         tq == CleanTokens(token_counts, now)
         w == WaitTime(rq, tq, now, l_tokens[t], rpm, tpm)
     IN /\ request_times' = rq
        /\ token_counts' = tq
        /\ l_wait_time' = [l_wait_time EXCEPT ![t] = w]
        /\ lpc' = [lpc EXCEPT ![t] = IF w > 0 THEN "sleep" ELSE "record"]
  /\ lock' = t
  /\ l_current_time' = [l_current_time EXCEPT ![t] = now]
  /\ UNCHANGED <<rpm, tpm, now, l_tokens, recorded>>
  /\ UNCHANGED <<execVars, ckptVars, retryVars, qualVars,
                 cleanVars, scoreVars, e2eVars, pipeVars,
                 trackVars, rateVars>>

\* lines 73-93: take the lock, read the clock, prune, compute wait_time
LimEnter(t) ==
  /\ lpc[t] = "lock"
  /\ lock = 0
  /\ LET rq == CleanTimes(request_times, now)
         tq == CleanTokens(token_counts, now)
         w == WaitTime(rq, tq, now, l_tokens[t], rpm, tpm)
     IN /\ request_times' = rq
        /\ token_counts' = tq
        /\ l_wait_time' = [l_wait_time EXCEPT ![t] = w]
        /\ lpc' = [lpc EXCEPT ![t] = IF w > 0 THEN "sleep" ELSE "record"]
  /\ lock' = t
  /\ l_current_time' = [l_current_time EXCEPT ![t] = now]
  /\ UNCHANGED <<rpm, tpm, now, l_tokens, recorded>>
  /\ UNCHANGED <<execVars, ckptVars, retryVars, qualVars,
                 cleanVars, scoreVars, e2eVars, pipeVars,
                 trackVars, rateVars>>

\* lines 96-100: time.sleep(wait_time) has returned; re-read the clock, prune
LimWake(t) ==
  /\ lpc[t] = "sleep"
  /\ now >= l_current_time[t] + l_wait_time[t]
  /\ request_times' = CleanTimes(request_times, now)
  /\ token_counts' = CleanTokens(token_counts, now)
  /\ l_current_time' = [l_current_time EXCEPT ![t] = now]
  /\ lpc' = [lpc EXCEPT ![t] = "record"]
  /\ UNCHANGED <<rpm, tpm, lock, now, l_tokens, l_wait_time, recorded>>
  /\ UNCHANGED <<execVars, ckptVars, retryVars, qualVars,
                 cleanVars, scoreVars, e2eVars, pipeVars,
                 trackVars, rateVars>>

LimRecordKeepsLock(t) ==
  /\ lpc[t] = "record"
  /\ request_times' = Append(request_times, l_current_time[t])
  /\ token_counts' = IF l_tokens[t] > 0
                     THEN Append(token_counts, <<l_current_time[t], l_tokens[t]>>)
                     ELSE token_counts
  /\ recorded' = Append(recorded, <<l_current_time[t], l_tokens[t]>>)
  /\ lock' = t
  /\ lpc' = [lpc EXCEPT ![t] = "idle"]
  /\ l_tokens' = [l_tokens EXCEPT ![t] = 0]
  /\ l_current_time' = [l_current_time EXCEPT ![t] = 0]
  /\ UNCHANGED <<rpm, tpm, now, l_wait_time>>
  /\ UNCHANGED <<execVars, ckptVars, retryVars, qualVars,
                 cleanVars, scoreVars, e2eVars, pipeVars,
                 trackVars, rateVars>>

LimRecordTwice(t) ==
  /\ lpc[t] = "record"
  /\ request_times' = Append(Append(request_times, l_current_time[t]), l_current_time[t])
  /\ token_counts' = IF l_tokens[t] > 0
                     THEN Append(token_counts, <<l_current_time[t], l_tokens[t]>>)
                     ELSE token_counts
  /\ recorded' = Append(recorded, <<l_current_time[t], l_tokens[t]>>)
  /\ lock' = 0
  /\ lpc' = [lpc EXCEPT ![t] = "idle"]
  /\ l_tokens' = [l_tokens EXCEPT ![t] = 0]
  /\ l_current_time' = [l_current_time EXCEPT ![t] = 0]
  /\ UNCHANGED <<rpm, tpm, now, l_wait_time>>
  /\ UNCHANGED <<execVars, ckptVars, retryVars, qualVars,
                 cleanVars, scoreVars, e2eVars, pipeVars,
                 trackVars, rateVars>>

\* lines 102-107: record the request, leave the lock, return wait_time
LimRecord(t) ==
  /\ lpc[t] = "record"
  /\ request_times' = Append(request_times, l_current_time[t])
  /\ token_counts' = IF l_tokens[t] > 0
                     THEN Append(token_counts, <<l_current_time[t], l_tokens[t]>>)
                     ELSE token_counts
  /\ recorded' = Append(recorded, <<l_current_time[t], l_tokens[t]>>)
  /\ lock' = 0
  /\ lpc' = [lpc EXCEPT ![t] = "idle"]
  /\ l_tokens' = [l_tokens EXCEPT ![t] = 0]
  /\ l_current_time' = [l_current_time EXCEPT ![t] = 0]
  /\ UNCHANGED <<rpm, tpm, now, l_wait_time>>
  /\ UNCHANGED <<execVars, ckptVars, retryVars, qualVars,
                 cleanVars, scoreVars, e2eVars, pipeVars,
                 trackVars, rateVars>>

\* the instants the clock may jump to: a step, or the end of a running sleep
WakeTimes == {l_current_time[t] + l_wait_time[t] : t \in {x \in LimThreads : lpc[x] = "sleep"}}

\* the clock advances (it never goes back)
LimTick(to) ==
  /\ to > now
  /\ to <= MaxTime
  /\ now' = to
  /\ UNCHANGED <<rpm, tpm, request_times, token_counts, lock, lpc, l_tokens,
                 l_current_time, l_wait_time, recorded>>
  /\ UNCHANGED <<execVars, ckptVars, retryVars, qualVars,
                 cleanVars, scoreVars, e2eVars, pipeVars,
                 trackVars, rateVars>>

\* time passes until a running sleep is over, however late the sleep began
LimSleepThrough(to) ==
  /\ to \in WakeTimes
  /\ to > now
  /\ now' = to
  /\ UNCHANGED <<rpm, tpm, request_times, token_counts, lock, lpc, l_tokens,
                 l_current_time, l_wait_time, recorded>>
  /\ UNCHANGED <<execVars, ckptVars, retryVars, qualVars,
                 cleanVars, scoreVars, e2eVars, pipeVars,
                 trackVars, rateVars>>

\* the limiter with the largest unit budget, asked for no units or for more
\* than the budget
LimFairInit ==
  /\ LimInit
  /\ tpm = MaxTpm

LimFairNext ==
  \/ \E t \in LimThreads, tokens \in {0, MaxTokens} : LimCall(t, tokens)
  \/ \E t \in LimThreads : LimEnter(t)
  \/ \E t \in LimThreads : LimWake(t)
  \/ \E t \in LimThreads : LimRecord(t)
  \/ \E to \in {now + d : d \in TickSteps} : LimTick(to)
  \/ \E to \in WakeTimes : LimSleepThrough(to)

LimNext ==
  \/ \E t \in LimThreads, tokens \in 0..MaxTokens : LimCall(t, tokens)
  \/ \E t \in LimThreads : LimEnter(t)
  \/ \E t \in LimThreads : LimWake(t)
  \/ \E t \in LimThreads : LimRecord(t)
  \/ \E to \in {now + d : d \in TickSteps} \cup WakeTimes : LimTick(to)

(***************************************************************************)
(* ParallelExecutor.map.  fn is deterministic: a function from items to    *)
(* what the call does, a returned value or "Raise" (it raises Exception).  *)
(***************************************************************************)
MaxItems == 3
MaxWidth == 3
ItemVals == {1, 2}
FnOutcomes == {"a", "b", "Raise"}
None == "None"

RECURSIVE SeqsUpTo(_, _)
SeqsUpTo(S, n) ==
  IF n = 0 THEN {<<>>}
  ELSE LET shorter == SeqsUpTo(S, n - 1)
       IN shorter \cup {Append(s, x) : s \in {q \in shorter : Len(q) = n - 1}, x \in S}

\* lines 179-188: what the collecting loop stores for a finished future
Slot(outcome) == IF outcome = "Raise" THEN None ELSE outcome

ExecInit ==
  /\ fn \in [ItemVals -> FnOutcomes]
  /\ items \in SeqsUpTo(ItemVals, MaxItems)
  /\ max_workers = 1
  /\ enable_parallel = TRUE
  /\ mpc = "idle"
  /\ results = <<>>
  /\ task = <<>>
  /\ mapHist = {}
  /\ doneOrder = <<>>

\* an executor that is never asked to map anything
ExecIdle ==
  /\ ExecInit
  /\ fn = [x \in ItemVals |-> "a"]
  /\ items = <<>>

\* line 162: an executor built with max_workers = w is asked to map fn over items
MapCall(w, par) ==
  /\ mpc \in {"idle", "returned", "raised"}
  /\ max_workers' = w
  /\ enable_parallel' = par
  /\ IF ~par \/ w = 1
     THEN /\ mpc' = "seq"
          /\ results' = <<>>
          /\ task' = <<>>
     ELSE /\ mpc' = "submit"
          /\ results' = [i \in 1..Len(items) |-> None]
          /\ task' = [i \in 1..Len(items) |-> "new"]
  /\ doneOrder' = <<>>
  /\ UNCHANGED <<fn, items, mapHist>>
  /\ UNCHANGED <<limVars, ckptVars, retryVars, qualVars,
                 cleanVars, scoreVars, e2eVars, pipeVars,
                 trackVars, rateVars>>

\* line 164: the list comprehension evaluates func on the next item; an
\* exception leaves map at once
SeqStep ==
  /\ mpc = "seq"
  /\ Len(results) < Len(items)
  /\ LET out == fn[items[Len(results) + 1]]
     IN IF out = "Raise"
        THEN /\ mpc' = "raised"
             /\ results' = <<>>
             /\ mapHist' = mapHist \cup
                  {[sequential |-> TRUE, status |-> "raised", results |-> <<>>]}
        ELSE /\ mpc' = mpc
             /\ results' = Append(results, out)
             /\ mapHist' = mapHist
  /\ UNCHANGED <<doneOrder, fn, items, max_workers, enable_parallel, task>>
  /\ UNCHANGED <<limVars, ckptVars, retryVars, qualVars,
                 cleanVars, scoreVars, e2eVars, pipeVars,
                 trackVars, rateVars>>

\* line 164: the comprehension is exhausted and its list is returned
SeqReturn ==
  /\ mpc = "seq"
  /\ Len(results) = Len(items)
  /\ mpc' = "returned"
  /\ mapHist' = mapHist \cup
       {[sequential |-> TRUE, status |-> "returned", results |-> results]}
  /\ UNCHANGED <<doneOrder, fn, items, max_workers, enable_parallel, results, task>>
  /\ UNCHANGED <<limVars, ckptVars, retryVars, qualVars,
                 cleanVars, scoreVars, e2eVars, pipeVars,
                 trackVars, rateVars>>

\* lines 170-173: executor.submit(func, item) for the next item, in list order
Submit ==
  /\ mpc = "submit"
  /\ IF \E i \in 1..Len(task) : task[i] = "new"
     THEN LET i == CHOOSE k \in 1..Len(task) :
                     task[k] = "new" /\ \A j \in 1..(k - 1) : task[j] # "new"
          IN /\ task' = [task EXCEPT ![i] = "queued"]
             /\ mpc' = mpc
     ELSE /\ task' = task
          /\ mpc' = "collect"
  /\ UNCHANGED <<doneOrder, fn, items, max_workers, enable_parallel, results, mapHist>>
  /\ UNCHANGED <<limVars, ckptVars, retryVars, qualVars,
                 cleanVars, scoreVars, e2eVars, pipeVars,
                 trackVars, rateVars>>

Running == {i \in 1..Len(task) : task[i] = "running"}

WorkerStartUnbounded(i) ==
  /\ mpc \in {"submit", "collect"}
  /\ i \in 1..Len(task)
  /\ task[i] = "queued"
  /\ \A j \in 1..(i - 1) : task[j] # "queued"
  /\ task' = [task EXCEPT ![i] = "running"]
  /\ UNCHANGED <<doneOrder, fn, items, max_workers, enable_parallel, mpc, results, mapHist>>
  /\ UNCHANGED <<limVars, ckptVars, retryVars, qualVars,
                 cleanVars, scoreVars, e2eVars, pipeVars,
                 trackVars, rateVars>>

\* line 168: ThreadPoolExecutor(max_workers=self.max_workers); a pool thread
\* takes the oldest queued work item, and the pool has max_workers threads
WorkerStart(i) ==
  /\ mpc \in {"submit", "collect"}
  /\ i \in 1..Len(task)
  /\ task[i] = "queued"
  /\ \A j \in 1..(i - 1) : task[j] # "queued"
  /\ Cardinality(Running) < max_workers
  /\ task' = [task EXCEPT ![i] = "running"]
  /\ UNCHANGED <<doneOrder, fn, items, max_workers, enable_parallel, mpc, results, mapHist>>
  /\ UNCHANGED <<limVars, ckptVars, retryVars, qualVars,
                 cleanVars, scoreVars, e2eVars, pipeVars,
                 trackVars, rateVars>>

\* func(item) ends in the pool thread; the future holds its value or its exception
WorkerFinish(i) ==
  /\ i \in 1..Len(task)
  /\ task[i] = "running"
  /\ task' = [task EXCEPT ![i] = "done"]
  /\ UNCHANGED <<doneOrder, fn, items, max_workers, enable_parallel, mpc, results, mapHist>>
  /\ UNCHANGED <<limVars, ckptVars, retryVars, qualVars,
                 cleanVars, scoreVars, e2eVars, pipeVars,
                 trackVars, rateVars>>

CollectByCompletion(i) ==
  /\ mpc = "collect"
  /\ i \in 1..Len(task)
  /\ task[i] = "done"
  /\ LET k == Cardinality({j \in 1..Len(task) : task[j] = "collected"}) + 1
     IN results' = [results EXCEPT ![k] = Slot(fn[items[i]])]
  /\ task' = [task EXCEPT ![i] = "collected"]
  /\ doneOrder' = Append(doneOrder, i)
  /\ UNCHANGED <<fn, items, max_workers, enable_parallel, mpc, mapHist>>
  /\ UNCHANGED <<limVars, ckptVars, retryVars, qualVars,
                 cleanVars, scoreVars, e2eVars, pipeVars,
                 trackVars, rateVars>>

\* lines 177-188: as_completed yields a finished future; its value, or None when
\* future.result() raises, goes to results[future_to_index[future]]
Collect(i) ==
  /\ mpc = "collect"
  /\ i \in 1..Len(task)
  /\ task[i] = "done"
  /\ results' = [results EXCEPT ![i] = Slot(fn[items[i]])]
  /\ task' = [task EXCEPT ![i] = "collected"]
  /\ doneOrder' = Append(doneOrder, i)
  /\ UNCHANGED <<fn, items, max_workers, enable_parallel, mpc, mapHist>>
  /\ UNCHANGED <<limVars, ckptVars, retryVars, qualVars,
                 cleanVars, scoreVars, e2eVars, pipeVars,
                 trackVars, rateVars>>

\* lines 189-192: as_completed is exhausted, the pool is shut down, results returned
ParReturn ==
  /\ mpc = "collect"
  /\ \A i \in 1..Len(task) : task[i] = "collected"
  /\ mpc' = "returned"
  /\ mapHist' = mapHist \cup
       {[sequential |-> FALSE, status |-> "returned", results |-> results]}
  /\ UNCHANGED <<doneOrder, fn, items, max_workers, enable_parallel, results, task>>
  /\ UNCHANGED <<limVars, ckptVars, retryVars, qualVars,
                 cleanVars, scoreVars, e2eVars, pipeVars,
                 trackVars, rateVars>>

ExecNext ==
  \/ \E w \in 1..MaxWidth, par \in BOOLEAN : MapCall(w, par)
  \/ SeqStep
  \/ SeqReturn
  \/ Submit
  \/ \E i \in 1..MaxItems : WorkerStart(i)
  \/ \E i \in 1..MaxItems : WorkerFinish(i)
  \/ \E i \in 1..MaxItems : Collect(i)
  \/ ParReturn

(***************************************************************************)
(* CheckpointManager.  A file is a sequence of the chunks json.dump wrote: *)
(* the metadata, one chunk per data element, the closing chunk.  Python    *)
(* values are [ty, v]; JSON has no tuple, so a tuple is written as an      *)
(* array and read back as a list, and a set cannot be written at all.      *)
(***************************************************************************)
MaxSaves == 2
SaverIds == {1, 2}
CHECKPOINT_PHASES == <<"utterances", "beliefs_raw", "canonical_beliefs", "clusters_updated">>
OtherPhases == {"notes"}
Phases == {CHECKPOINT_PHASES[i] : i \in 1..Len(CHECKPOINT_PHASES)} \cup OtherPhases

PyStr == [ty |-> "str", v |-> 1]
PyTuple == [ty |-> "tuple", v |-> 1]
PyList == [ty |-> "list", v |-> 1]
PySet == [ty |-> "set", v |-> 1]
DataLists == {<<>>, <<PyStr>>, <<PyTuple>>, <<PyList>>, <<PyStr, PySet>>}
StatsArgs == {1}

\* checkpoint_file = self.checkpoint_dir / f"{phase}.json"
Final(phase) == <<phase, "json">>
TempIsFinal(phase) == Final(phase)

\* checkpoint_file.with_suffix(".tmp")
Temp(phase) == <<Final(phase)[1], "tmp">>

\* json: what the encoder accepts
Serializable(v) == v.ty \in {"str", "list", "tuple"}
\* json.dump of one element of data
EncodeElem(v) ==
  [tok |-> "elem", s |-> IF v.ty = "str" THEN "string" ELSE "array", n |-> v.v]
\* json.load of one element of data
DecodeElem(t) ==
  [ty |-> IF t.s = "string" THEN "str" ELSE "list", v |-> t.n]
\* lines 65-73: the metadata part of the checkpoint structure (stats or {})
MetaTok(phase, stats) == [tok |-> "meta", s |-> phase, n |-> stats]
EndTok == [tok |-> "end", s |-> "", n |-> 0]

\* the complete text json.dump writes for a checkpoint of serializable data
Encode(phase, stats, data) ==
  <<MetaTok(phase, stats)>> \o [i \in 1..Len(data) |-> EncodeElem(data[i])] \o <<EndTok>>

\* json.load succeeds and the structure test of line 117 passes
WellFormed(c) ==
  /\ Len(c) >= 2
  /\ c[1].tok = "meta"
  /\ c[Len(c)].tok = "end"
  /\ \A i \in 2..(Len(c) - 1) : c[i].tok = "elem"

Exists(phase) == Final(phase) \in DOMAIN files

Put(f, name, c) == [x \in DOMAIN f \cup {name} |-> IF x = name THEN c ELSE f[x]]
Remove(f, name) == [x \in DOMAIN f \ {name} |-> f[x]]

NoRet == [op |-> "none", phase |-> "", kind |-> "", data |-> <<>>]

LoadReturnsMetadata(f, phase) ==
  IF Final(phase) \notin DOMAIN f
  THEN [op |-> "load", phase |-> phase, kind |-> "none", data |-> <<>>]
  ELSE [op |-> "load", phase |-> phase, kind |-> "data", data |-> <<>>]

LoadSkipsMalformed(f, phase) ==
  IF Final(phase) \notin DOMAIN f \/ ~WellFormed(f[Final(phase)])
  THEN [op |-> "load", phase |-> phase, kind |-> "none", data |-> <<>>]
  ELSE [op |-> "load", phase |-> phase, kind |-> "data",
        data |-> [i \in 1..(Len(f[Final(phase)]) - 2) |->
                    DecodeElem(f[Final(phase)][i + 1])]]

\* lines 106-133: load(phase)
LoadResult(f, phase) ==
  IF Final(phase) \notin DOMAIN f
  THEN [op |-> "load", phase |-> phase, kind |-> "none", data |-> <<>>]
  ELSE LET c == f[Final(phase)]
       IN IF ~WellFormed(c)
          THEN [op |-> "load", phase |-> phase, kind |-> "CheckpointError", data |-> <<>>]
          ELSE [op |-> "load", phase |-> phase, kind |-> "data",
                data |-> [i \in 1..(Len(c) - 2) |-> DecodeElem(c[i + 1])]]

LastFromFront(f, i) ==
  LET hit == {k \in 1..i : Final(CHECKPOINT_PHASES[k]) \in DOMAIN f}
  IN IF hit = {} THEN <<>>
     ELSE <<CHECKPOINT_PHASES[CHOOSE k \in hit : \A j \in hit : k <= j]>>

\* lines 155-158: walk reversed(CHECKPOINT_PHASES); <<>> stands for None
RECURSIVE LastFrom(_, _)
LastFrom(f, i) ==
  IF i = 0 THEN <<>>
  ELSE IF Final(CHECKPOINT_PHASES[i]) \in DOMAIN f THEN <<CHECKPOINT_PHASES[i]>>
  ELSE LastFrom(f, i - 1)

\* fd is the name under which the file of the saver's open handle is found in
\* the directory: NoFile with no handle open, Unlinked once another file was
\* renamed over it
NoFile == <<>>
Unlinked == <<"", "unlinked">>
IdleSaver == [pc |-> "idle", phase |-> "", data |-> <<>>, stats |-> 0, pos |-> 0,
              hadOld |-> FALSE, old |-> <<>>, stage |-> "", fd |-> NoFile]

\* a hole left by a write past the end of a file
HoleTok == [tok |-> "hole", s |-> "", n |-> 0]
\* the handle's k-th write lands at the handle's own offset
WriteAt(c, k, t) ==
  [i \in 1..Max(Len(c), k) |-> IF i = k THEN t ELSE IF i <= Len(c) THEN c[i] ELSE HoleTok]

CkptInit ==
  /\ checkpoint_enabled \in BOOLEAN
  /\ files = <<>>
  /\ ck = [s \in SaverIds |-> IdleSaver]
  /\ ckRet = NoRet
  /\ savers = {1}
  /\ nSaves = 0
  /\ lastSaved = [p \in Phases |-> [has |-> FALSE, data |-> <<>>]]

\* a manager with checkpointing enabled that is never used
CkptIdle ==
  /\ CkptInit
  /\ checkpoint_enabled = TRUE

Alive == \A s \in savers : ck[s].pc # "crashed"

SaveCallAlways(s, phase, data, stats) ==
  /\ s \in savers
  /\ Alive
  /\ ck[s].pc = "idle"
  /\ nSaves < MaxSaves
  /\ nSaves' = nSaves + 1
  /\ ck' = [ck EXCEPT ![s] =
         [pc |-> "open", phase |-> phase, data |-> data, stats |-> stats,
          pos |-> 0, hadOld |-> Exists(phase),
          old |-> IF Exists(phase) THEN files[Final(phase)] ELSE <<>>,
          stage |-> "", fd |-> NoFile]]
  /\ ckRet' = NoRet
  /\ UNCHANGED <<checkpoint_enabled, files, savers, lastSaved>>
  /\ UNCHANGED <<limVars, execVars, retryVars, qualVars,
                 cleanVars, scoreVars, e2eVars, pipeVars,
                 trackVars, rateVars>>

\* lines 57-73: save(phase, data, stats) up to the checkpoint structure
SaveCall(s, phase, data, stats) ==
  /\ s \in savers
  /\ Alive
  /\ ck[s].pc = "idle"
  /\ nSaves < MaxSaves
  /\ nSaves' = nSaves + 1
  /\ IF ~checkpoint_enabled
     THEN /\ ck' = ck
          /\ ckRet' = [op |-> "save", phase |-> phase, kind |-> "none", data |-> <<>>]
     ELSE /\ ck' = [ck EXCEPT ![s] =
                 [pc |-> "open", phase |-> phase, data |-> data, stats |-> stats,
                  pos |-> 0, hadOld |-> Exists(phase),
                  old |-> IF Exists(phase) THEN files[Final(phase)] ELSE <<>>,
                  stage |-> "", fd |-> NoFile]]
          /\ ckRet' = NoRet
  /\ UNCHANGED <<checkpoint_enabled, files, savers, lastSaved>>
  /\ UNCHANGED <<limVars, execVars, retryVars, qualVars,
                 cleanVars, scoreVars, e2eVars, pipeVars,
                 trackVars, rateVars>>

\* line 77: open(temp_file, "w") creates the temporary file or empties it
SaveOpen(s) ==
  /\ s \in savers
  /\ ck[s].pc = "open"
  /\ files' = Put(files, Temp(ck[s].phase), <<>>)
  /\ ck' = [ck EXCEPT ![s].pc = "write", ![s].pos = 1, ![s].fd = Temp(ck[s].phase)]
  /\ UNCHANGED <<checkpoint_enabled, ckRet, savers, nSaves, lastSaved>>
  /\ UNCHANGED <<limVars, execVars, retryVars, qualVars,
                 cleanVars, scoreVars, e2eVars, pipeVars,
                 trackVars, rateVars>>

\* the file of the handle gets t at the handle's offset; a file that has lost
\* its name takes the write out of sight
Written(f, s, t) ==
  IF ck[s].fd \in DOMAIN f THEN Put(f, ck[s].fd, WriteAt(f[ck[s].fd], ck[s].pos, t))
  ELSE f

\* line 78: json.dump writes the next chunk through the handle of line 77 (the
\* last one closes the file); an element json cannot encode raises, and line
\* 91 turns that into CheckpointError
SaveWrite(s) ==
  /\ s \in savers
  /\ ck[s].pc = "write"
  /\ LET p == ck[s].phase
         d == ck[s].data
         k == ck[s].pos
     IN IF k = 1
        THEN /\ files' = Written(files, s, MetaTok(p, ck[s].stats))
             /\ ck' = [ck EXCEPT ![s].pos = 2]
             /\ ckRet' = ckRet
        ELSE IF k = Len(d) + 2
        THEN /\ files' = Written(files, s, EndTok)
             /\ ck' = [ck EXCEPT ![s].pc = "rename", ![s].fd = NoFile]
             /\ ckRet' = ckRet
        ELSE IF Serializable(d[k - 1])
        THEN /\ files' = Written(files, s, EncodeElem(d[k - 1]))
             /\ ck' = [ck EXCEPT ![s].pos = k + 1]
             /\ ckRet' = ckRet
        ELSE /\ files' = files
             /\ ck' = [ck EXCEPT ![s] = IdleSaver]
             /\ ckRet' = [op |-> "save", phase |-> p, kind |-> "CheckpointError",
                          data |-> <<>>]
  /\ UNCHANGED <<checkpoint_enabled, savers, nSaves, lastSaved>>
  /\ UNCHANGED <<limVars, execVars, retryVars, qualVars,
                 cleanVars, scoreVars, e2eVars, pipeVars,
                 trackVars, rateVars>>

SaveRenameCopiesNothing(s) ==
  /\ s \in savers
  /\ ck[s].pc = "rename"
  /\ Temp(ck[s].phase) \in DOMAIN files
  /\ files' = Remove(Put(files, Final(ck[s].phase), <<>>), Temp(ck[s].phase))
  /\ ck' = [ck EXCEPT ![s].pc = "saved"]
  /\ lastSaved' = [lastSaved EXCEPT ![ck[s].phase] = [has |-> TRUE, data |-> ck[s].data]]
  /\ UNCHANGED <<checkpoint_enabled, ckRet, savers, nSaves>>
  /\ UNCHANGED <<limVars, execVars, retryVars, qualVars,
                 cleanVars, scoreVars, e2eVars, pipeVars,
                 trackVars, rateVars>>

\* the handles of the other savers stay on their files when the temporary
\* file takes the name of the phase file
Renamed(s, u) ==
  IF u = s THEN [ck[u] EXCEPT !.pc = "saved"]
  ELSE IF ck[u].fd = Temp(ck[s].phase) THEN [ck[u] EXCEPT !.fd = Final(ck[s].phase)]
  ELSE IF ck[u].fd = Final(ck[s].phase) THEN [ck[u] EXCEPT !.fd = Unlinked]
  ELSE ck[u]

\* line 81: temp_file.rename(checkpoint_file), one atomic step of the file
\* system (with no temporary file there it fails: SaveFail)
SaveRename(s) ==
  /\ s \in savers
  /\ ck[s].pc = "rename"
  /\ Temp(ck[s].phase) \in DOMAIN files
  /\ files' = Remove(Put(files, Final(ck[s].phase), files[Temp(ck[s].phase)]),
                     Temp(ck[s].phase))
  /\ ck' = [u \in SaverIds |-> Renamed(s, u)]
  /\ lastSaved' = [lastSaved EXCEPT ![ck[s].phase] = [has |-> TRUE, data |-> ck[s].data]]
  /\ UNCHANGED <<checkpoint_enabled, ckRet, savers, nSaves>>
  /\ UNCHANGED <<limVars, execVars, retryVars, qualVars,
                 cleanVars, scoreVars, e2eVars, pipeVars,
                 trackVars, rateVars>>

\* lines 83-88: log and return the path
SaveReturn(s) ==
  /\ s \in savers
  /\ ck[s].pc = "saved"
  /\ ckRet' = [op |-> "save", phase |-> ck[s].phase, kind |-> "path", data |-> <<>>]
  /\ ck' = [ck EXCEPT ![s] = IdleSaver]
  /\ UNCHANGED <<checkpoint_enabled, files, savers, nSaves, lastSaved>>
  /\ UNCHANGED <<limVars, execVars, retryVars, qualVars,
                 cleanVars, scoreVars, e2eVars, pipeVars,
                 trackVars, rateVars>>

SaveFailSwallowed(s) ==
  /\ s \in savers
  /\ ck[s].pc \in {"open", "write", "rename"}
  /\ ckRet' = [op |-> "save", phase |-> ck[s].phase, kind |-> "none", data |-> <<>>]
  /\ ck' = [ck EXCEPT ![s] = IdleSaver]
  /\ UNCHANGED <<checkpoint_enabled, files, savers, nSaves, lastSaved>>
  /\ UNCHANGED <<limVars, execVars, retryVars, qualVars,
                 cleanVars, scoreVars, e2eVars, pipeVars,
                 trackVars, rateVars>>

\* lines 90-91: open, write or rename fails in the operating system
SaveFail(s) ==
  /\ s \in savers
  /\ ck[s].pc \in {"open", "write", "rename"}
  /\ ckRet' = [op |-> "save", phase |-> ck[s].phase, kind |-> "CheckpointError",
               data |-> <<>>]
  /\ ck' = [ck EXCEPT ![s] = IdleSaver]
  /\ UNCHANGED <<checkpoint_enabled, files, savers, nSaves, lastSaved>>
  /\ UNCHANGED <<limVars, execVars, retryVars, qualVars,
                 cleanVars, scoreVars, e2eVars, pipeVars,
                 trackVars, rateVars>>

\* the process is killed while a save is under way; the directory stays as it is
Crash ==
  /\ \E s \in savers : ck[s].pc \in {"open", "write", "rename", "saved"}
  /\ ck' = [s \in SaverIds |->
              IF s \in savers /\ ck[s].pc \in {"open", "write", "rename", "saved"}
              THEN [ck[s] EXCEPT !.pc = "crashed", !.stage = ck[s].pc]
              ELSE ck[s]]
  /\ ckRet' = NoRet
  /\ UNCHANGED <<checkpoint_enabled, files, savers, nSaves, lastSaved>>
  /\ UNCHANGED <<limVars, execVars, retryVars, qualVars,
                 cleanVars, scoreVars, e2eVars, pipeVars,
                 trackVars, rateVars>>

\* the pipeline is started again on the same directory
Restart ==
  /\ ~Alive
  /\ ck' = [s \in SaverIds |-> IdleSaver]
  /\ UNCHANGED <<checkpoint_enabled, files, ckRet, savers, nSaves, lastSaved>>
  /\ UNCHANGED <<limVars, execVars, retryVars, qualVars,
                 cleanVars, scoreVars, e2eVars, pipeVars,
                 trackVars, rateVars>>

\* lines 93-133: load(phase)
Load(s, phase) ==
  /\ s \in savers
  /\ Alive
  /\ ck[s].pc = "idle"
  /\ ckRet' = LoadResult(files, phase)
  /\ UNCHANGED <<checkpoint_enabled, files, ck, savers, nSaves, lastSaved>>
  /\ UNCHANGED <<limVars, execVars, retryVars, qualVars,
                 cleanVars, scoreVars, e2eVars, pipeVars,
                 trackVars, rateVars>>

\* lines 148-158: get_last_checkpoint()
GetLastCheckpoint(s) ==
  /\ s \in savers
  /\ Alive
  /\ ck[s].pc = "idle"
  /\ ckRet' = [op |-> "get_last_checkpoint", phase |-> "", kind |-> "phase",
               data |-> LastFrom(files, Len(CHECKPOINT_PHASES))]
  /\ UNCHANGED <<checkpoint_enabled, files, ck, savers, nSaves, lastSaved>>
  /\ UNCHANGED <<limVars, execVars, retryVars, qualVars,
                 cleanVars, scoreVars, e2eVars, pipeVars,
                 trackVars, rateVars>>

CkptNext ==
  \/ \E s \in SaverIds, phase \in Phases, data \in DataLists, stats \in StatsArgs :
       SaveCall(s, phase, data, stats)
  \/ \E s \in SaverIds : SaveOpen(s)
  \/ \E s \in SaverIds : SaveWrite(s)
  \/ \E s \in SaverIds : SaveRename(s)
  \/ \E s \in SaverIds : SaveReturn(s)
  \/ \E s \in SaverIds : SaveFail(s)
  \/ Crash
  \/ Restart
  \/ \E s \in SaverIds, phase \in Phases : Load(s, phase)
  \/ \E s \in SaverIds : GetLastCheckpoint(s)

(***************************************************************************)
(* A checkpoint manager opened on the directory an earlier run, or a hand, *)
(* has left: one file for the phase "utterances", which is a complete      *)
(* checkpoint, a truncated one, a document without the metadata part or a  *)
(* document without the data part.                                         *)
(***************************************************************************)
NoDataEnd == [tok |-> "close", s |-> "", n |-> 0]
PriorContents ==
  {Encode("utterances", 1, <<PyStr>>),
   <<MetaTok("utterances", 1), EncodeElem(PyStr)>>,
   <<EncodeElem(PyStr), EndTok>>,
   <<MetaTok("utterances", 1), NoDataEnd>>}
PriorPhases == {"utterances", "beliefs_raw"}

CkptPriorInit ==
  /\ checkpoint_enabled \in BOOLEAN
  /\ files \in {Put(<<>>, Final("utterances"), c) : c \in PriorContents}
  /\ ck = [s \in SaverIds |-> IdleSaver]
  /\ ckRet = NoRet
  /\ savers = {1}
  /\ nSaves = 0
  /\ lastSaved = [p \in Phases |-> [has |-> FALSE, data |-> <<>>]]

CkptPriorNext ==
  \/ \E s \in SaverIds, phase \in PriorPhases, data \in DataLists, stats \in StatsArgs :
       SaveCall(s, phase, data, stats)
  \/ \E s \in SaverIds : SaveOpen(s)
  \/ \E s \in SaverIds : SaveWrite(s)
  \/ \E s \in SaverIds : SaveRename(s)
  \/ \E s \in SaverIds : SaveReturn(s)
  \/ \E s \in SaverIds : SaveFail(s)
  \/ \E s \in SaverIds, phase \in PriorPhases : Load(s, phase)

\* two threads of one run save the same phase at the same time
ConcPhases == {CHECKPOINT_PHASES[1]}

CkptConcInit ==
  /\ checkpoint_enabled = TRUE
  /\ files = <<>>
  /\ ck = [s \in SaverIds |-> IdleSaver]
  /\ ckRet = NoRet
  /\ savers = SaverIds
  /\ nSaves = 0
  /\ lastSaved = [p \in Phases |-> [has |-> FALSE, data |-> <<>>]]

CkptConcNext ==
  \/ \E s \in SaverIds, phase \in ConcPhases, data \in DataLists, stats \in StatsArgs :
       SaveCall(s, phase, data, stats)
  \/ \E s \in SaverIds : SaveOpen(s)
  \/ \E s \in SaverIds : SaveWrite(s)
  \/ \E s \in SaverIds : SaveRename(s)
  \/ \E s \in SaverIds : SaveReturn(s)
  \/ \E s \in SaverIds : SaveFail(s)
  \/ \E s \in SaverIds, phase \in ConcPhases : Load(s, phase)

(***************************************************************************)
(* QualityMetrics.  The add_* methods take no lock.  `self.x += 1` reads   *)
(* the attribute and stores the sum in separate bytecodes, and a thread    *)
(* switch may fall between them; list.append is one step.                  *)
(***************************************************************************)
MaxQCalls == 3
QWorkers == {1, 2}
ListOps == {"add_parsing_error", "add_api_error", "add_warning"}
CounterOps == {"add_parsing_error", "add_api_error", "add_retry",
               "add_malformed_belief", "add_registry_mismatch"}
QOps == ListOps \cup CounterOps
ErrText == "e"

QualInit ==
  /\ errors_count = 0
  /\ parsing_errors = <<>>
  /\ api_errors = <<>>
  /\ retries_count = 0
  /\ malformed_beliefs_count = 0
  /\ registry_mismatches_count = 0
  /\ warnings = <<>>
  /\ qpc = [w \in QWorkers |-> "idle"]
  /\ q_op = [w \in QWorkers |-> ""]
  /\ q_val = [w \in QWorkers |-> 0]
  /\ qDone = [o \in QOps |-> 0]

\* number of add_* calls started so far
QStarted ==
  qDone["add_parsing_error"] + qDone["add_api_error"] + qDone["add_retry"]
    + qDone["add_malformed_belief"] + qDone["add_registry_mismatch"]
    + qDone["add_warning"] + Cardinality({w \in QWorkers : qpc[w] # "idle"})

\* the attribute the method op increments
CounterOf(op) ==
  CASE op \in {"add_parsing_error", "add_api_error"} -> errors_count
    [] op = "add_retry" -> retries_count
    [] op = "add_malformed_belief" -> malformed_beliefs_count
    [] op = "add_registry_mismatch" -> registry_mismatches_count

\* the position a worker is at when it enters method op
FirstStep(op) == IF op \in ListOps THEN "append" ELSE "load"

\* a worker thread enters one of the add_* methods; the workers are alike, so
\* the idle worker with the smallest number is taken
QCall(w, op) ==
  /\ qpc[w] = "idle"
  /\ \A u \in QWorkers : u < w => qpc[u] # "idle"
  /\ QStarted < MaxQCalls
  /\ qpc' = [qpc EXCEPT ![w] = FirstStep(op)]
  /\ q_op' = [q_op EXCEPT ![w] = op]
  /\ UNCHANGED <<errors_count, parsing_errors, api_errors, retries_count,
                 malformed_beliefs_count, registry_mismatches_count, warnings,
                 q_val, qDone>>
  /\ UNCHANGED <<limVars, execVars, ckptVars, retryVars,
                 cleanVars, scoreVars, e2eVars, pipeVars,
                 trackVars, rateVars>>

\* lines 45, 51, 69: self.<list>.append(...); add_warning then only logs and returns
QAppend(w) ==
  /\ qpc[w] = "append"
  /\ parsing_errors' = IF q_op[w] = "add_parsing_error"
                       THEN Append(parsing_errors, ErrText) ELSE parsing_errors
  /\ api_errors' = IF q_op[w] = "add_api_error"
                   THEN Append(api_errors, ErrText) ELSE api_errors
  /\ warnings' = IF q_op[w] = "add_warning"
                 THEN Append(warnings, ErrText) ELSE warnings
  /\ IF q_op[w] \in CounterOps
     THEN /\ qpc' = [qpc EXCEPT ![w] = "load"]
          /\ UNCHANGED <<q_op, qDone>>
     ELSE /\ qpc' = [qpc EXCEPT ![w] = "idle"]
          /\ q_op' = [q_op EXCEPT ![w] = ""]
          /\ qDone' = [qDone EXCEPT ![q_op[w]] = @ + 1]
  /\ UNCHANGED <<errors_count, retries_count, malformed_beliefs_count,
                 registry_mismatches_count, q_val>>
  /\ UNCHANGED <<limVars, execVars, ckptVars, retryVars,
                 cleanVars, scoreVars, e2eVars, pipeVars,
                 trackVars, rateVars>>

\* lines 46, 52, 57, 61, 65: the read of self.<counter> in `self.<counter> += 1`
QLoad(w) ==
  /\ qpc[w] = "load"
  /\ q_val' = [q_val EXCEPT ![w] = CounterOf(q_op[w])]
  /\ qpc' = [qpc EXCEPT ![w] = "store"]
  /\ UNCHANGED <<errors_count, parsing_errors, api_errors, retries_count,
                 malformed_beliefs_count, registry_mismatches_count, warnings,
                 q_op, qDone>>
  /\ UNCHANGED <<limVars, execVars, ckptVars, retryVars,
                 cleanVars, scoreVars, e2eVars, pipeVars,
                 trackVars, rateVars>>

\* lines 46, 52, 57, 61, 65: the store of the sum; the method then returns
QStore(w) ==
  /\ qpc[w] = "store"
  /\ errors_count' = IF q_op[w] \in {"add_parsing_error", "add_api_error"}
                     THEN q_val[w] + 1 ELSE errors_count
  /\ retries_count' = IF q_op[w] = "add_retry" THEN q_val[w] + 1 ELSE retries_count
  /\ malformed_beliefs_count' = IF q_op[w] = "add_malformed_belief"
                                THEN q_val[w] + 1 ELSE malformed_beliefs_count
  /\ registry_mismatches_count' = IF q_op[w] = "add_registry_mismatch"
                                  THEN q_val[w] + 1 ELSE registry_mismatches_count
  /\ qpc' = [qpc EXCEPT ![w] = "idle"]
  /\ q_op' = [q_op EXCEPT ![w] = ""]
  /\ q_val' = [q_val EXCEPT ![w] = 0]
  /\ qDone' = [qDone EXCEPT ![q_op[w]] = @ + 1]
  /\ UNCHANGED <<parsing_errors, api_errors, warnings>>
  /\ UNCHANGED <<limVars, execVars, ckptVars, retryVars,
                 cleanVars, scoreVars, e2eVars, pipeVars,
                 trackVars, rateVars>>

QualNext ==
  \/ \E w \in QWorkers, op \in QOps : QCall(w, op)
  \/ \E w \in QWorkers : QAppend(w)
  \/ \E w \in QWorkers : QLoad(w)
  \/ \E w \in QWorkers : QStore(w)

(***************************************************************************)
(* The retry wrappers.  An exception is [cls, msg]: its class and the set  *)
(* of markers its message contains.  func is any operation: each           *)
(* invocation returns a value or raises one of the exceptions.             *)
(***************************************************************************)
MaxRetriesArg == 6
RETRY_BACKOFF_FACTOR == 2
RETRY_MAX_WAIT == 60
ErrClasses == {"APIError", "ValueError"}
Errors == {[cls |-> "APIError", msg |-> {"429"}],
           [cls |-> "APIError", msg |-> {"timeout"}],
           [cls |-> "APIError", msg |-> {"503"}],
           [cls |-> "ValueError", msg |-> {}]}
NoErr == [cls |-> "", msg |-> {}]
RateLimitError == [cls |-> "RateLimitError", msg |-> {"Rate limit exceeded"}]
Values == {"r1", "r2"}

\* the keyword arguments retry_with_backoff is built with; the first record
\* is the defaults of lines 37-39 and 19-20
BackoffArgs ==
  {[backoff_factor |-> RETRY_BACKOFF_FACTOR, max_wait |-> RETRY_MAX_WAIT,
    exceptions |-> ErrClasses, on_retry |-> "None"],
   [backoff_factor |-> 1, max_wait |-> RETRY_MAX_WAIT,
    exceptions |-> {"APIError"}, on_retry |-> "increment"],
   [backoff_factor |-> 3, max_wait |-> 5,
    exceptions |-> ErrClasses, on_retry |-> "increment"]}

\* retry_openai_call takes max_retries only: it reads config and catches Exception
OpenAIArgs ==
  [backoff_factor |-> RETRY_BACKOFF_FACTOR, max_wait |-> RETRY_MAX_WAIT,
   exceptions |-> ErrClasses, on_retry |-> "None"]

RECURSIVE Pow(_, _)
Pow(b, n) == IF n = 0 THEN 1 ELSE b * Pow(b, n - 1)

\* line 114
IsRateLimit(e) == e.msg \cap {"429", "rate_limit"} # {}
\* line 117
IsTimeout(e) == e.msg \cap {"timeout", "timed out"} # {}
IsServerErrorOnly500(e) == e.msg \cap {"500"} # {}
\* line 120
IsServerError(e) == e.msg \cap {"500", "502", "503", "504"} # {}
RetryableAlways(e) == TRUE
\* line 123
Retryable(e) == IsRateLimit(e) \/ IsTimeout(e) \/ IsServerError(e)

ExhaustedOneEarly(r, m) == r >= m
ExhaustedOneLate(r, m) == r > m + 1
ExhaustedNever(r, m) == FALSE

\* lines 53 and 129: if retries > max_retries
Exhausted(r, m) == r > m

BackoffWaitUncapped(r) == Pow(backoff_factor, r)

\* line 60: min(backoff_factor ** retries, max_wait)
BackoffWait(r) == Min(Pow(backoff_factor, r), max_wait)

OpenAIWaitSameForAll(e, r) == Min(Pow(RETRY_BACKOFF_FACTOR, r), RETRY_MAX_WAIT)

\* lines 138-146
OpenAIWait(e, r) ==
  IF IsRateLimit(e) THEN Min(Pow(RETRY_BACKOFF_FACTOR, r) * 2, RETRY_MAX_WAIT)
  ELSE Min(Pow(RETRY_BACKOFF_FACTOR, r), RETRY_MAX_WAIT)

RetryInit ==
  /\ wrapperKind \in {"backoff", "openai"}
  /\ max_retries \in 0..MaxRetriesArg
  /\ \E a \in IF wrapperKind = "backoff" THEN BackoffArgs ELSE {OpenAIArgs} :
       /\ backoff_factor = a.backoff_factor
       /\ max_wait = a.max_wait
       /\ caught = a.exceptions
       /\ on_retry = a.on_retry
  /\ count = 0
  /\ rtpc = "call"
  /\ retries = 0
  /\ raisedErr = NoErr
  /\ retResult = ""
  /\ opLog = <<>>
  /\ sleeps = <<>>

\* one wrapped call that has not invoked func yet
RetryIdle ==
  /\ RetryInit
  /\ wrapperKind = "backoff"
  /\ max_retries = 0
  /\ on_retry = "None"

\* lines 46-48 and 105-107: the loop test holds, func is called and returns v
InvokeOk(v) ==
  /\ rtpc = "call"
  /\ retries <= max_retries
  /\ Len(opLog) <= MaxRetriesArg + 1
  /\ opLog' = Append(opLog, [ok |-> TRUE, val |-> v, err |-> NoErr])
  /\ retResult' = v
  /\ rtpc' = "returned"
  /\ UNCHANGED <<wrapperKind, max_retries, caught, retries, raisedErr, sleeps,
                 backoff_factor, max_wait, on_retry, count>>
  /\ UNCHANGED <<limVars, execVars, ckptVars, qualVars,
                 cleanVars, scoreVars, e2eVars, pipeVars,
                 trackVars, rateVars>>

\* lines 46-48 and 105-107: the loop test holds, func is called and raises e
InvokeRaise(e) ==
  /\ rtpc = "call"
  /\ retries <= max_retries
  /\ Len(opLog) <= MaxRetriesArg + 1
  /\ opLog' = Append(opLog, [ok |-> FALSE, val |-> "", err |-> e])
  /\ raisedErr' = e
  /\ rtpc' = "except"
  /\ UNCHANGED <<wrapperKind, max_retries, caught, retries, retResult, sleeps,
                 backoff_factor, max_wait, on_retry, count>>
  /\ UNCHANGED <<limVars, execVars, ckptVars, qualVars,
                 cleanVars, scoreVars, e2eVars, pipeVars,
                 trackVars, rateVars>>

\* retry_with_backoff, lines 50-71 up to the call of time.sleep
HandleBackoff ==
  /\ rtpc = "except"
  /\ wrapperKind = "backoff"
  /\ IF raisedErr.cls \notin caught
     THEN /\ rtpc' = "raised"
          /\ UNCHANGED <<retries, sleeps, count>>
     ELSE /\ retries' = retries + 1
          /\ IF Exhausted(retries', max_retries)
             THEN /\ rtpc' = "raised"
                  /\ UNCHANGED <<sleeps, count>>
             ELSE /\ rtpc' = "sleep"
                  /\ count' = IF on_retry = "increment" THEN count + 1 ELSE count
                  /\ sleeps' = Append(sleeps, BackoffWait(retries'))
  /\ UNCHANGED <<wrapperKind, max_retries, caught, raisedErr, retResult, opLog,
                 backoff_factor, max_wait, on_retry>>
  /\ UNCHANGED <<limVars, execVars, ckptVars, qualVars,
                 cleanVars, scoreVars, e2eVars, pipeVars,
                 trackVars, rateVars>>

\* a variant in which a rate-limit failure anywhere in the call marks the
\* exhaustion as a rate-limit one
HandleOpenAISticky ==
  /\ rtpc = "except"
  /\ wrapperKind = "openai"
  /\ IF ~Retryable(raisedErr)
     THEN /\ rtpc' = "raised"
          /\ UNCHANGED <<retries, sleeps, raisedErr>>
     ELSE /\ retries' = retries + 1
          /\ IF Exhausted(retries', max_retries)
             THEN /\ rtpc' = "raised"
                  /\ raisedErr' = IF \E i \in 1..Len(opLog) : IsRateLimit(opLog[i].err)
                                  THEN RateLimitError ELSE raisedErr
                  /\ UNCHANGED sleeps
             ELSE /\ rtpc' = "sleep"
                  /\ sleeps' = Append(sleeps, OpenAIWait(raisedErr, retries'))
                  /\ UNCHANGED raisedErr
  /\ UNCHANGED <<wrapperKind, max_retries, caught, retResult, opLog,
                 backoff_factor, max_wait, on_retry, count>>
  /\ UNCHANGED <<limVars, execVars, ckptVars, qualVars,
                 cleanVars, scoreVars, e2eVars, pipeVars,
                 trackVars, rateVars>>

\* retry_openai_call, lines 109-153 up to the call of time.sleep
HandleOpenAI ==
  /\ rtpc = "except"
  /\ wrapperKind = "openai"
  /\ IF ~Retryable(raisedErr)
     THEN /\ rtpc' = "raised"
          /\ UNCHANGED <<retries, sleeps, raisedErr>>
     ELSE /\ retries' = retries + 1
          /\ IF Exhausted(retries', max_retries)
             THEN /\ rtpc' = "raised"
                  /\ raisedErr' = IF IsRateLimit(raisedErr) THEN RateLimitError
                                  ELSE raisedErr
                  /\ UNCHANGED sleeps
             ELSE /\ rtpc' = "sleep"
                  /\ sleeps' = Append(sleeps, OpenAIWait(raisedErr, retries'))
                  /\ UNCHANGED raisedErr
  /\ UNCHANGED <<wrapperKind, max_retries, caught, retResult, opLog,
                 backoff_factor, max_wait, on_retry, count>>
  /\ UNCHANGED <<limVars, execVars, ckptVars, qualVars,
                 cleanVars, scoreVars, e2eVars, pipeVars,
                 trackVars, rateVars>>

\* lines 71 and 153: time.sleep returns and the while loop starts over
SleepDone ==
  /\ rtpc = "sleep"
  /\ rtpc' = "call"
  /\ UNCHANGED <<wrapperKind, max_retries, caught, retries, raisedErr, retResult,
                 opLog, sleeps, backoff_factor, max_wait, on_retry, count>>
  /\ UNCHANGED <<limVars, execVars, ckptVars, qualVars,
                 cleanVars, scoreVars, e2eVars, pipeVars,
                 trackVars, rateVars>>

\* extractor.py 92-95: _extract_batch catches what the wrapped
\* _extract_from_utterance raised and enters metrics.add_api_error(str(e))
ExtractCatch ==
  /\ rtpc = "raised"
  /\ wrapperKind = "openai"
  /\ qpc[1] = "idle"
  /\ rtpc' = "caught"
  /\ qpc' = [qpc EXCEPT ![1] = FirstStep("add_api_error")]
  /\ q_op' = [q_op EXCEPT ![1] = "add_api_error"]
  /\ UNCHANGED <<wrapperKind, max_retries, caught, retries, raisedErr, retResult,
                 opLog, sleeps, backoff_factor, max_wait, on_retry, count>>
  /\ UNCHANGED <<errors_count, parsing_errors, api_errors, retries_count,
                 malformed_beliefs_count, registry_mismatches_count, warnings,
                 q_val, qDone>>
  /\ UNCHANGED <<limVars, execVars, ckptVars,
                 cleanVars, scoreVars, e2eVars, pipeVars,
                 trackVars, rateVars>>

RetryNext ==
  \/ \E v \in Values : InvokeOk(v)
  \/ \E e \in Errors : InvokeRaise(e)
  \/ HandleBackoff
  \/ HandleOpenAI
  \/ SleepDone
  \/ ExtractCatch
  \/ \E w \in QWorkers : QAppend(w)
  \/ \E w \in QWorkers : QLoad(w)
  \/ \E w \in QWorkers : QStore(w)

\* the wrappers with any integer for max_retries, a negative one included;
\* the quality counters are left out
RuntimeErr == [cls |-> "RuntimeError", msg |-> {"Unexpected retry logic error"}]
AnyRetries == {m - 1 : m \in 0..MaxRetriesArg}

RetryAnyInit ==
  /\ wrapperKind \in {"backoff", "openai"}
  /\ max_retries \in AnyRetries
  /\ \E a \in IF wrapperKind = "backoff" THEN BackoffArgs ELSE {OpenAIArgs} :
       /\ backoff_factor = a.backoff_factor
       /\ max_wait = a.max_wait
       /\ caught = a.exceptions
       /\ on_retry = a.on_retry
  /\ count = 0
  /\ rtpc = "call"
  /\ retries = 0
  /\ raisedErr = NoErr
  /\ retResult = ""
  /\ opLog = <<>>
  /\ sleeps = <<>>

\* lines 46, 74 and 105, 155: the loop test fails and the statement after the
\* loop raises
FallThrough ==
  /\ rtpc = "call"
  /\ ~(retries <= max_retries)
  /\ raisedErr' = RuntimeErr
  /\ rtpc' = "raised"
  /\ UNCHANGED <<wrapperKind, max_retries, caught, retries, retResult, opLog,
                 sleeps, backoff_factor, max_wait, on_retry, count>>
  /\ UNCHANGED <<limVars, execVars, ckptVars, qualVars,
                 cleanVars, scoreVars, e2eVars, pipeVars,
                 trackVars, rateVars>>

RetryAnyNext ==
  \/ \E v \in Values : InvokeOk(v)
  \/ \E e \in Errors : InvokeRaise(e)
  \/ HandleBackoff
  \/ HandleOpenAI
  \/ SleepDone
  \/ FallThrough

(***************************************************************************)
(* QualityScorer.  Points are counted in tenths, so that the penalties of  *)
(* config (2.0, 0.5, 1.0, 0.5) and the score are integers.                 *)
(***************************************************************************)
FullScore == 1000
QUALITY_PENALTY_ERROR == 20
QUALITY_PENALTY_RETRY == 5
QUALITY_PENALTY_MALFORMED == 10
QUALITY_PENALTY_MISMATCH == 5
\* config.QUALITY_THRESHOLDS as shipped
QUALITY_THRESHOLDS == [A |-> 900, B |-> 800, C |-> 700, D |-> 600]
\* what config.QUALITY_THRESHOLDS may be set to: the shipped cutoffs, cutoffs
\* that do not fall from A to D, and cutoffs for three grades only
ThresholdSets ==
  {QUALITY_THRESHOLDS,
   [A |-> 800, B |-> 900, C |-> 700, D |-> 600],
   [A |-> 900, B |-> 800, C |-> 700]}
\* the counter values a run may end with
ErrorCounts == {0, 1, 2, 5, 8, 10, 13, 15, 18, 20, 23, 49, 50, 51}
RetryCounts == {0, 1, 3}
MalformedCounts == {0, 1}
MismatchCounts == {0, 1}

CalculateScoreNoFloor(e, r, m, x) ==
  FullScore - e * QUALITY_PENALTY_ERROR - r * QUALITY_PENALTY_RETRY
    - m * QUALITY_PENALTY_MALFORMED - x * QUALITY_PENALTY_MISMATCH

\* lines 109-124: calculate_score
CalculateScore(e, r, m, x) ==
  Max(0, FullScore - e * QUALITY_PENALTY_ERROR - r * QUALITY_PENALTY_RETRY
           - m * QUALITY_PENALTY_MALFORMED - x * QUALITY_PENALTY_MISMATCH)

\* lines 144-153: calculate_grade
CalculateGrade(sc, th) ==
  IF "A" \notin DOMAIN th THEN "KeyError" ELSE IF sc >= th["A"] THEN "A"
  ELSE IF "B" \notin DOMAIN th THEN "KeyError" ELSE IF sc >= th["B"] THEN "B"
  ELSE IF "C" \notin DOMAIN th THEN "KeyError" ELSE IF sc >= th["C"] THEN "C"
  ELSE IF "D" \notin DOMAIN th THEN "KeyError" ELSE IF sc >= th["D"] THEN "D"
  ELSE "F"

ScoreInit ==
  /\ thresholds \in ThresholdSets
  /\ spc = "idle"
  /\ score = 0
  /\ grade = ""

\* a scorer under the shipped configuration that never reports
ScoreIdle ==
  /\ ScoreInit
  /\ thresholds = QUALITY_THRESHOLDS

\* the metrics at the end of a run
MetricsAtEnd ==
  /\ errors_count \in ErrorCounts
  /\ parsing_errors = <<>>
  /\ api_errors = [i \in 1..errors_count |-> ErrText]
  /\ retries_count \in RetryCounts
  /\ malformed_beliefs_count \in MalformedCounts
  /\ registry_mismatches_count \in MismatchCounts
  /\ warnings = <<>>
  /\ qpc = [w \in QWorkers |-> "idle"]
  /\ q_op = [w \in QWorkers |-> ""]
  /\ q_val = [w \in QWorkers |-> 0]
  /\ qDone = [o \in QOps |-> 0]

\* line 162: generate_report calls calculate_score
ReportScore ==
  /\ spc = "idle"
  /\ score' = CalculateScore(errors_count, retries_count, malformed_beliefs_count,
                             registry_mismatches_count)
  /\ spc' = "scored"
  /\ UNCHANGED <<thresholds, grade>>
  /\ UNCHANGED <<limVars, execVars, ckptVars, retryVars, qualVars,
                 cleanVars, e2eVars, pipeVars,
                 trackVars, rateVars>>

\* line 163: generate_report calls calculate_grade(score)
ReportGrade ==
  /\ spc = "scored"
  /\ grade' = CalculateGrade(score, thresholds)
  /\ spc' = "graded"
  /\ UNCHANGED <<thresholds, score>>
  /\ UNCHANGED <<limVars, execVars, ckptVars, retryVars, qualVars,
                 cleanVars, e2eVars, pipeVars,
                 trackVars, rateVars>>

ScoreNext ==
  \/ ReportScore
  \/ ReportGrade

(***************************************************************************)
(* cleanup_old_checkpoints.  Time is counted in days.  An entry of         *)
(* CHECKPOINTS_DIR is [kind, mtime, files]: a run directory with the names *)
(* of its files, or a plain file.                                          *)
(***************************************************************************)
CHECKPOINT_CLEANUP_DAYS == 30
\* what datetime.now() returns while cleanup runs
ClockNow == CHECKPOINT_CLEANUP_DAYS + 10
Mtimes == {ClockNow - a : a \in {CHECKPOINT_CLEANUP_DAYS - 1, CHECKPOINT_CLEANUP_DAYS,
                                 CHECKPOINT_CLEANUP_DAYS + 1}}
\* the argument days; None stands for config.CHECKPOINT_CLEANUP_DAYS (line 227)
DaysArgs == {0, CHECKPOINT_CLEANUP_DAYS}
EntryNames == {"episode_001", "episode_002"}
\* a directory that is empty, holds one checkpoint, or holds one checkpoint and
\* the temporary file an interrupted save left behind
DirFileSets == {{}, {Final("utterances")},
                {Final("utterances"), Temp("beliefs_raw")}}
EntryStates ==
  [kind : {"dir"}, mtime : Mtimes, files : DirFileSets]
    \cup [kind : {"file"}, mtime : Mtimes, files : {{}}]

CleanInit ==
  /\ entries \in [EntryNames -> EntryStates]
  /\ cl_pc = "idle"
  /\ cl_days = 0
  /\ cl_todo = {}
  /\ cl_before = entries

\* an empty CHECKPOINTS_DIR that is never cleaned
CleanIdle ==
  /\ entries = <<>>
  /\ cl_pc = "idle"
  /\ cl_days = 0
  /\ cl_todo = {}
  /\ cl_before = entries

\* lines 227-238: cleanup_old_checkpoints(days) up to the listing of the directory
CleanupCall(days) ==
  /\ cl_pc = "idle"
  /\ cl_days' = days
  /\ cl_before' = entries
  /\ IF days <= 0
     THEN /\ cl_pc' = "returned"
          /\ cl_todo' = {}
     ELSE /\ cl_pc' = "loop"
          /\ cl_todo' = DOMAIN entries
  /\ UNCHANGED entries
  /\ UNCHANGED <<limVars, execVars, ckptVars, retryVars, qualVars,
                 scoreVars, e2eVars, pipeVars,
                 trackVars, rateVars>>

CleanupVisitInclusive(d) ==
  /\ cl_pc = "loop"
  /\ d \in cl_todo
  /\ cl_todo' = cl_todo \ {d}
  /\ IF entries[d].kind = "dir" /\ entries[d].mtime <= ClockNow - cl_days
     THEN LET left == {f \in entries[d].files : f[2] # "json"}
          IN IF left = {}
             THEN entries' = Remove(entries, d)
             ELSE entries' = [entries EXCEPT ![d] =
                     [kind |-> "dir", files |-> left,
                      mtime |-> IF left # entries[d].files THEN ClockNow
                                ELSE entries[d].mtime]]
     ELSE entries' = entries
  /\ UNCHANGED <<cl_pc, cl_days, cl_before>>
  /\ UNCHANGED <<limVars, execVars, ckptVars, retryVars, qualVars,
                 scoreVars, e2eVars, pipeVars,
                 trackVars, rateVars>>

\* lines 238-254: the loop body for one entry.  An entry that is no directory
\* is skipped; a directory older than the cutoff loses its *.json files (which
\* sets its modification time) and is removed if nothing is left in it.
CleanupVisit(d) ==
  /\ cl_pc = "loop"
  /\ d \in cl_todo
  /\ cl_todo' = cl_todo \ {d}
  /\ IF entries[d].kind = "dir" /\ entries[d].mtime < ClockNow - cl_days
     THEN LET left == {f \in entries[d].files : f[2] # "json"}
          IN IF left = {}
             THEN entries' = Remove(entries, d)
             ELSE entries' = [entries EXCEPT ![d] =
                     [kind |-> "dir", files |-> left,
                      mtime |-> IF left # entries[d].files THEN ClockNow
                                ELSE entries[d].mtime]]
     ELSE entries' = entries
  /\ UNCHANGED <<cl_pc, cl_days, cl_before>>
  /\ UNCHANGED <<limVars, execVars, ckptVars, retryVars, qualVars,
                 scoreVars, e2eVars, pipeVars,
                 trackVars, rateVars>>

\* lines 256-257: the loop is over
CleanupReturn ==
  /\ cl_pc = "loop"
  /\ cl_todo = {}
  /\ cl_pc' = "returned"
  /\ UNCHANGED <<entries, cl_days, cl_todo, cl_before>>
  /\ UNCHANGED <<limVars, execVars, ckptVars, retryVars, qualVars,
                 scoreVars, e2eVars, pipeVars,
                 trackVars, rateVars>>

CleanNext ==
  \/ \E days \in DaysArgs : CleanupCall(days)
  \/ \E d \in EntryNames : CleanupVisit(d)
  \/ CleanupReturn

(***************************************************************************)
(* The extraction stage end to end: ParallelExecutor.map over a pool of    *)
(* worker threads, each call going through retry_openai_call, with the     *)
(* QualityMetrics of the run.  map is given either the wrapped function    *)
(* itself or, as BeliefExtractor.extract does, _extract_batch, which       *)
(* catches what the wrapped function raises.  An item is "ok" (the call    *)
(* returns), "fatal" (every call raises an error without marker) or        *)
(* "flaky" (the first FlakyFailures calls raise a timeout).                *)
(***************************************************************************)
MaxE2EItems == 4
FlakyFailures == 2
EXTRACT_MAX_RETRIES == 3
ItemKinds == {"ok", "fatal", "flaky"}
MapFuncs == {"wrapped", "extract_batch"}
FatalErr == [cls |-> "ValueError", msg |-> {}]
TransientErr == [cls |-> "APIError", msg |-> {"timeout"}]
CountKind(kinds, k) == Cardinality({i \in DOMAIN kinds : kinds[i] = k})
KindSeqs ==
  {kinds \in [1..MaxE2EItems -> ItemKinds] :
     CountKind(kinds, "fatal") <= 2 /\ CountKind(kinds, "flaky") <= 1}
NewTask == [st |-> "new", calls |-> 0, retries |-> 0, err |-> NoErr]

E2EInit ==
  /\ e_func \in MapFuncs
  /\ e_kind \in KindSeqs
  /\ e_pc = "idle"
  /\ e_task = [i \in 1..MaxE2EItems |-> NewTask]
  /\ e_thread = [w \in QWorkers |-> 0]
  /\ e_out = [i \in 1..MaxE2EItems |-> "pending"]
  /\ e_results = <<>>

\* no extraction stage is run
E2EIdle ==
  /\ e_func = "wrapped"
  /\ e_kind = <<>>
  /\ e_pc = "idle"
  /\ e_task = <<>>
  /\ e_thread = [w \in QWorkers |-> 0]
  /\ e_out = <<>>
  /\ e_results = <<>>

\* parallel.py 171-176: map submits every item to the pool
E2ECall ==
  /\ e_pc = "idle"
  /\ e_kind # <<>>
  /\ e_pc' = "running"
  /\ UNCHANGED <<e_func, e_kind, e_task, e_thread, e_out, e_results>>
  /\ UNCHANGED <<limVars, execVars, ckptVars, retryVars, qualVars,
                 cleanVars, scoreVars, pipeVars,
                 trackVars, rateVars>>

\* a free pool thread takes the oldest submitted item and enters the wrapper
\* (retry.py 103: retries = 0)
E2EStart(w) ==
  /\ e_pc = "running"
  /\ e_thread[w] = 0
  /\ \A u \in QWorkers : u < w => e_thread[u] # 0
  /\ \E i \in DOMAIN e_task :
       /\ e_task[i].st = "new"
       /\ \A j \in DOMAIN e_task : j < i => e_task[j].st # "new"
       /\ e_thread' = [e_thread EXCEPT ![w] = i]
       /\ e_task' = [e_task EXCEPT ![i].st = "call"]
  /\ UNCHANGED <<e_func, e_kind, e_pc, e_out, e_results>>
  /\ UNCHANGED <<limVars, execVars, ckptVars, retryVars, qualVars,
                 cleanVars, scoreVars, pipeVars,
                 trackVars, rateVars>>

\* what the call number c on an item of kind k does: the error it raises, or
\* NoErr when it returns
CallOutcome(k, c) ==
  IF k = "fatal" THEN FatalErr
  ELSE IF k = "flaky" /\ c <= FlakyFailures THEN TransientErr
  ELSE NoErr

\* the thread has left the function it was given: the future is resolved
Resolve(w, i, out) ==
  /\ e_out' = [e_out EXCEPT ![i] = out]
  /\ e_thread' = [e_thread EXCEPT ![w] = 0]

\* retry.py 107: return func(*args, **kwargs)
E2EInvoke(w) ==
  /\ e_thread[w] # 0
  /\ LET i == e_thread[w]
         c == e_task[i].calls + 1
         e == CallOutcome(e_kind[i], c)
     IN /\ e_task[i].st = "call"
        /\ IF e = NoErr
           THEN /\ e_task' = [e_task EXCEPT ![i].st = "done", ![i].calls = c]
                /\ Resolve(w, i, IF e_func = "wrapped" THEN "value" ELSE "list")
           ELSE /\ e_task' = [e_task EXCEPT ![i].st = "except", ![i].calls = c,
                                            ![i].err = e]
                /\ UNCHANGED <<e_out, e_thread>>
  /\ UNCHANGED <<e_func, e_kind, e_pc, e_results>>
  /\ UNCHANGED <<limVars, execVars, ckptVars, retryVars, qualVars,
                 cleanVars, scoreVars, pipeVars,
                 trackVars, rateVars>>

\* retry.py 109-153 up to the call of time.sleep, with max_retries=3 of
\* extractor.py 99
E2EHandle(w) ==
  /\ e_thread[w] # 0
  /\ LET i == e_thread[w]
         t == e_task[i]
     IN /\ t.st = "except"
        /\ IF ~Retryable(t.err)
           THEN e_task' = [e_task EXCEPT ![i].st = "raised"]
           ELSE IF Exhausted(t.retries + 1, EXTRACT_MAX_RETRIES)
           THEN e_task' = [e_task EXCEPT ![i].st = "raised",
                             ![i].retries = t.retries + 1,
                             ![i].err = IF IsRateLimit(t.err) THEN RateLimitError
                                        ELSE t.err]
           ELSE e_task' = [e_task EXCEPT ![i].st = "sleep",
                             ![i].retries = t.retries + 1]
  /\ UNCHANGED <<e_func, e_kind, e_pc, e_thread, e_out, e_results>>
  /\ UNCHANGED <<limVars, execVars, ckptVars, retryVars, qualVars,
                 cleanVars, scoreVars, pipeVars,
                 trackVars, rateVars>>

\* retry.py 153: time.sleep returns and the while loop starts over
E2ESleepDone(w) ==
  /\ e_thread[w] # 0
  /\ e_task[e_thread[w]].st = "sleep"
  /\ e_task' = [e_task EXCEPT ![e_thread[w]].st = "call"]
  /\ UNCHANGED <<e_func, e_kind, e_pc, e_thread, e_out, e_results>>
  /\ UNCHANGED <<limVars, execVars, ckptVars, retryVars, qualVars,
                 cleanVars, scoreVars, pipeVars,
                 trackVars, rateVars>>

\* the wrapper has raised.  Given to map directly, the exception is the
\* outcome of the future; inside _extract_batch (extractor.py 92-95) it is
\* caught and the thread enters metrics.add_api_error(str(e)).
E2ERaised(w) ==
  /\ e_thread[w] # 0
  /\ LET i == e_thread[w]
     IN /\ e_task[i].st = "raised"
        /\ IF e_func = "wrapped"
           THEN /\ e_task' = [e_task EXCEPT ![i].st = "done"]
                /\ Resolve(w, i, "exception")
                /\ UNCHANGED <<qpc, q_op>>
           ELSE /\ e_task' = [e_task EXCEPT ![i].st = "record"]
                /\ qpc' = [qpc EXCEPT ![w] = FirstStep("add_api_error")]
                /\ q_op' = [q_op EXCEPT ![w] = "add_api_error"]
                /\ UNCHANGED <<e_out, e_thread>>
  /\ UNCHANGED <<e_func, e_kind, e_pc, e_results>>
  /\ UNCHANGED <<errors_count, parsing_errors, api_errors, retries_count,
                 malformed_beliefs_count, registry_mismatches_count, warnings,
                 q_val, qDone>>
  /\ UNCHANGED <<limVars, execVars, ckptVars, retryVars,
                 cleanVars, scoreVars, pipeVars,
                 trackVars, rateVars>>

\* extractor.py 97: add_api_error is over and _extract_batch returns its list
E2EBatchReturn(w) ==
  /\ e_thread[w] # 0
  /\ e_task[e_thread[w]].st = "record"
  /\ qpc[w] = "idle"
  /\ e_task' = [e_task EXCEPT ![e_thread[w]].st = "done"]
  /\ Resolve(w, e_thread[w], "list")
  /\ UNCHANGED <<e_func, e_kind, e_pc, e_results>>
  /\ UNCHANGED <<limVars, execVars, ckptVars, retryVars, qualVars,
                 cleanVars, scoreVars, pipeVars,
                 trackVars, rateVars>>

\* parallel.py 179-190: every future is collected into the slot of its index,
\* None for a future that holds an exception, and map returns
E2EReturn ==
  /\ e_pc = "running"
  /\ \A i \in DOMAIN e_task : e_task[i].st = "done"
  /\ e_results' = [i \in DOMAIN e_out |-> Slot(IF e_out[i] = "exception" THEN "Raise"
                                               ELSE e_out[i])]
  /\ e_pc' = "returned"
  /\ UNCHANGED <<e_func, e_kind, e_task, e_thread, e_out>>
  /\ UNCHANGED <<limVars, execVars, ckptVars, retryVars, qualVars,
                 cleanVars, scoreVars, pipeVars,
                 trackVars, rateVars>>

E2ENext ==
  \/ E2ECall
  \/ \E w \in QWorkers : E2EStart(w)
  \/ \E w \in QWorkers : E2EInvoke(w)
  \/ \E w \in QWorkers : E2EHandle(w)
  \/ \E w \in QWorkers : E2ESleepDone(w)
  \/ \E w \in QWorkers : E2ERaised(w)
  \/ \E w \in QWorkers : E2EBatchReturn(w)
  \/ E2EReturn
  \/ \E w \in QWorkers : QAppend(w)
  \/ \E w \in QWorkers : QLoad(w)
  \/ \E w \in QWorkers : QStore(w)

(***************************************************************************)
(* run_pipeline of main.py, run again and again on the directory of one    *)
(* episode.  A stage is the work between two checkpoints; the checkpoint   *)
(* that follows stage k is PipelinePhases[k], written by saver 1 of the    *)
(* checkpoint manager.  pl_exec is the set of stages the current run has   *)
(* executed, and pl_last is what get_last_checkpoint() answers on the      *)
(* directory the run started with (0 for None).                            *)
(***************************************************************************)
MaxRuns == 2
PipelinePhases == <<"utterances", "beliefs_raw", "canonical_beliefs">>
ReportFile == <<"quality_report", "json">>
ReportTok == [tok |-> "report", s |-> "", n |-> 0]
LastIndex(f) ==
  LET last == LastFrom(f, Len(CHECKPOINT_PHASES))
  IN IF last = <<>> THEN 0
     ELSE CHOOSE k \in 1..Len(CHECKPOINT_PHASES) : CHECKPOINT_PHASES[k] = last[1]

PipeInit ==
  /\ pl_pc = "off"
  /\ pl_next = 1
  /\ pl_run = 0
  /\ pl_resume = FALSE
  /\ pl_last = 0
  /\ pl_exec = {}

\* main.py 84-128: a new process parses its arguments and run_pipeline begins;
\* args.resume is read nowhere
PlStart(resume, no_checkpoint) ==
  /\ pl_pc \in {"off", "failed", "complete", "killed"}
  /\ pl_run < MaxRuns
  /\ pl_run' = pl_run + 1
  /\ pl_resume' = resume
  /\ pl_last' = LastIndex(files)
  /\ pl_exec' = {}
  /\ pl_next' = 1
  /\ pl_pc' = "stage"
  /\ checkpoint_enabled' = ~no_checkpoint
  /\ ck' = [s \in SaverIds |-> IdleSaver]
  /\ ckRet' = NoRet
  /\ UNCHANGED <<files, savers, nSaves, lastSaved>>
  /\ UNCHANGED <<limVars, execVars, retryVars, qualVars,
                 cleanVars, scoreVars, e2eVars,
                 trackVars, rateVars>>

\* main.py 134-152, 164-177, 188-198: the work of stage pl_next; an exception
\* ends run_pipeline in the handler of line 261
PlStage(ok) ==
  /\ pl_pc = "stage"
  /\ pl_exec' = pl_exec \cup {pl_next}
  /\ pl_pc' = IF ok THEN "save" ELSE "failed"
  /\ UNCHANGED <<pl_next, pl_run, pl_resume, pl_last>>
  /\ UNCHANGED <<limVars, execVars, ckptVars, retryVars, qualVars,
                 cleanVars, scoreVars, e2eVars,
                 trackVars, rateVars>>

\* the stage that follows checkpoint k, or the report after the last one
AfterCheckpoint(k) == IF k = Len(PipelinePhases) THEN "report" ELSE "stage"

\* main.py 154-160, 180-186, 204-210: if config.CHECKPOINT_ENABLED, call
\* checkpoint_manager.save(phase, data, stats) (checkpoint.py 57-73)
PlSave ==
  /\ pl_pc = "save"
  /\ IF ~checkpoint_enabled
     THEN /\ pl_pc' = AfterCheckpoint(pl_next)
          /\ pl_next' = Min(pl_next + 1, Len(PipelinePhases))
          /\ UNCHANGED <<ck, ckRet>>
     ELSE /\ pl_pc' = "saving"
          /\ pl_next' = pl_next
          /\ ck' = [ck EXCEPT ![1] =
                 [pc |-> "open", phase |-> PipelinePhases[pl_next], data |-> <<PyStr>>,
                  stats |-> 1, pos |-> 0, hadOld |-> Exists(PipelinePhases[pl_next]),
                  old |-> IF Exists(PipelinePhases[pl_next])
                          THEN files[Final(PipelinePhases[pl_next])] ELSE <<>>,
                  stage |-> "", fd |-> NoFile]]
          /\ ckRet' = NoRet
  /\ UNCHANGED <<pl_run, pl_resume, pl_last, pl_exec>>
  /\ UNCHANGED <<checkpoint_enabled, files, savers, nSaves, lastSaved>>
  /\ UNCHANGED <<limVars, execVars, retryVars, qualVars,
                 cleanVars, scoreVars, e2eVars,
                 trackVars, rateVars>>

\* save has returned the path, or raised CheckpointError into the handler of
\* line 261
PlAfterSave ==
  /\ pl_pc = "saving"
  /\ ck[1].pc = "idle"
  /\ ckRet.op = "save"
  /\ IF ckRet.kind = "CheckpointError"
     THEN /\ pl_pc' = "failed"
          /\ pl_next' = pl_next
     ELSE /\ pl_pc' = AfterCheckpoint(pl_next)
          /\ pl_next' = Min(pl_next + 1, Len(PipelinePhases))
  /\ UNCHANGED <<pl_run, pl_resume, pl_last, pl_exec>>
  /\ UNCHANGED <<limVars, execVars, ckptVars, retryVars, qualVars,
                 cleanVars, scoreVars, e2eVars,
                 trackVars, rateVars>>

\* main.py 216-253: generate_report, save_report (quality_scorer.py 197-205
\* writes quality_report.json into the directory of the episode), return 0
PlReport ==
  /\ pl_pc = "report"
  /\ files' = Put(files, ReportFile, <<ReportTok>>)
  /\ pl_pc' = "complete"
  /\ UNCHANGED <<pl_next, pl_run, pl_resume, pl_last, pl_exec>>
  /\ UNCHANGED <<checkpoint_enabled, ck, ckRet, savers, nSaves, lastSaved>>
  /\ UNCHANGED <<limVars, execVars, retryVars, qualVars,
                 cleanVars, scoreVars, e2eVars,
                 trackVars, rateVars>>

\* the process is killed while run_pipeline is under way; the directory stays
\* as it is
PlKill ==
  /\ pl_pc \in {"stage", "save", "saving", "report"}
  /\ pl_pc' = "killed"
  /\ ck' = [s \in SaverIds |->
              IF ck[s].pc \in {"open", "write", "rename", "saved"}
              THEN [ck[s] EXCEPT !.pc = "crashed", !.stage = ck[s].pc]
              ELSE ck[s]]
  /\ ckRet' = NoRet
  /\ UNCHANGED <<pl_next, pl_run, pl_resume, pl_last, pl_exec>>
  /\ UNCHANGED <<checkpoint_enabled, files, savers, nSaves, lastSaved>>
  /\ UNCHANGED <<limVars, execVars, retryVars, qualVars,
                 cleanVars, scoreVars, e2eVars,
                 trackVars, rateVars>>

PipeNext ==
  \/ \E resume \in BOOLEAN, no_checkpoint \in BOOLEAN : PlStart(resume, no_checkpoint)
  \/ \E ok \in BOOLEAN : PlStage(ok)
  \/ PlSave
  \/ PlAfterSave
  \/ PlReport
  \/ PlKill
  \/ SaveOpen(1)
  \/ SaveWrite(1)
  \/ SaveRename(1)
  \/ SaveReturn(1)
  \/ SaveFail(1)

(***************************************************************************)
(* Deleting checkpoints and finding the resume point, on a run directory   *)
(* that holds any files of earlier runs of the episode.                    *)
(***************************************************************************)
\* the files a run directory may hold: phase checkpoints, a temporary file a
\* killed save left behind, and the quality report
DirNames == {Final(ph) : ph \in Phases} \cup {Temp(CHECKPOINT_PHASES[2]), ReportFile}
\* the last phase's checkpoint is a truncated one
ContentOf(x) ==
  IF x = ReportFile THEN <<ReportTok>>
  ELSE IF x[2] = "json" /\ x[1] # CHECKPOINT_PHASES[Len(CHECKPOINT_PHASES)]
  THEN Encode(x[1], 1, <<PyStr>>)
  ELSE <<MetaTok(x[1], 1)>>
RunDirectories == {[x \in D |-> ContentOf(x)] : D \in SUBSET DirNames}
\* the directory of another episode under CHECKPOINTS_DIR
OtherRuns ==
  [n \in {"episode_002"} |->
     [kind |-> "dir", mtime |-> ClockNow, files |-> {Final(CHECKPOINT_PHASES[1])}]]

CkptDirInit ==
  /\ checkpoint_enabled = TRUE
  /\ files \in RunDirectories
  /\ ck = [s \in SaverIds |-> IdleSaver]
  /\ ckRet = NoRet
  /\ savers = {1}
  /\ nSaves = 0
  /\ lastSaved = [ph \in Phases |-> [has |-> FALSE, data |-> <<>>]]

OtherRunsInit ==
  /\ entries = OtherRuns
  /\ cl_pc = "idle"
  /\ cl_days = 0
  /\ cl_todo = {}
  /\ cl_before = entries

\* what the manager remembers of the phase file it found, for the claims
Found(s, phase) ==
  [ck[s] EXCEPT !.phase = phase, !.hadOld = Exists(phase),
                !.old = IF Exists(phase) THEN files[Final(phase)] ELSE <<>>]

\* checkpoint.py 135-146: exists(phase)
ExistsCall(s, phase) ==
  /\ s \in savers
  /\ ck[s].pc = "idle"
  /\ ckRet' = [op |-> "exists", phase |-> phase,
               kind |-> IF Exists(phase) THEN "True" ELSE "False", data |-> <<>>]
  /\ UNCHANGED <<checkpoint_enabled, files, ck, savers, nSaves, lastSaved>>
  /\ UNCHANGED <<limVars, execVars, retryVars, qualVars,
                 cleanVars, scoreVars, e2eVars, pipeVars,
                 trackVars, rateVars>>

DeleteEverything(s, phase) ==
  /\ s \in savers
  /\ ck[s].pc = "idle"
  /\ files' = <<>>
  /\ ck' = [ck EXCEPT ![s] = Found(s, phase)]
  /\ ckRet' = [op |-> "delete", phase |-> phase, kind |-> "none", data |-> <<>>]
  /\ lastSaved' = [lastSaved EXCEPT ![phase] = [has |-> FALSE, data |-> <<>>]]
  /\ UNCHANGED <<checkpoint_enabled, savers, nSaves>>
  /\ UNCHANGED <<limVars, execVars, retryVars, qualVars,
                 cleanVars, scoreVars, e2eVars, pipeVars,
                 trackVars, rateVars>>

\* checkpoint.py 160-170: delete(phase) unlinks the phase file if there is one
Delete(s, phase) ==
  /\ s \in savers
  /\ ck[s].pc = "idle"
  /\ files' = IF Exists(phase) THEN Remove(files, Final(phase)) ELSE files
  /\ ck' = [ck EXCEPT ![s] = Found(s, phase)]
  /\ ckRet' = [op |-> "delete", phase |-> phase, kind |-> "none", data |-> <<>>]
  /\ lastSaved' = [lastSaved EXCEPT ![phase] = [has |-> FALSE, data |-> <<>>]]
  /\ UNCHANGED <<checkpoint_enabled, savers, nSaves>>
  /\ UNCHANGED <<limVars, execVars, retryVars, qualVars,
                 cleanVars, scoreVars, e2eVars, pipeVars,
                 trackVars, rateVars>>

\* self.checkpoint_dir.glob("*.json")
GlobJson(f) == {x \in DOMAIN f : x[2] = "json"}

\* checkpoint.py 172-176: delete_all() unlinks every *.json of the directory
DeleteAll(s) ==
  /\ s \in savers
  /\ ck[s].pc = "idle"
  /\ files' = [x \in DOMAIN files \ GlobJson(files) |-> files[x]]
  /\ ck' = [ck EXCEPT ![s] =
              [ck[s] EXCEPT !.phase = "", !.old = <<>>,
                            !.hadOld = \E ph \in Phases : Exists(ph)]]
  /\ ckRet' = [op |-> "delete_all", phase |-> "", kind |-> "none", data |-> <<>>]
  /\ lastSaved' = [ph \in Phases |-> [has |-> FALSE, data |-> <<>>]]
  /\ UNCHANGED <<checkpoint_enabled, savers, nSaves>>
  /\ UNCHANGED <<limVars, execVars, retryVars, qualVars,
                 cleanVars, scoreVars, e2eVars, pipeVars,
                 trackVars, rateVars>>

\* config.CHECKPOINT_PHASES.index(last): 0 stands for ValueError
IndexOf(ph) ==
  IF \E k \in 1..Len(CHECKPOINT_PHASES) : CHECKPOINT_PHASES[k] = ph
  THEN CHOOSE k \in 1..Len(CHECKPOINT_PHASES) : CHECKPOINT_PHASES[k] = ph
  ELSE 0

ResumePointNextPhase(f) ==
  LET last == LastFrom(f, Len(CHECKPOINT_PHASES))
  IN IF last = <<>> THEN <<>>
     ELSE IF IndexOf(last[1]) = 0 THEN <<>>
     ELSE IF IndexOf(last[1]) < Len(CHECKPOINT_PHASES)
     THEN <<CHECKPOINT_PHASES[IndexOf(last[1]) + 1]>>
     ELSE last

\* checkpoint.py 192-214: the value get_resume_point returns for the directory
\* f; <<>> stands for None
ResumePoint(f) ==
  LET last == LastFrom(f, Len(CHECKPOINT_PHASES))
  IN IF last = <<>> THEN <<>>
     ELSE IF IndexOf(last[1]) = 0 THEN <<>>
     ELSE IF IndexOf(last[1]) < Len(CHECKPOINT_PHASES)
     THEN last
     ELSE last

\* checkpoint.py 182-214: get_resume_point(episode_id) on a manager of its own
\* (the directory is there already, so mkdir changes nothing)
GetResumePoint(s) ==
  /\ s \in savers
  /\ ck[s].pc = "idle"
  /\ ckRet' = [op |-> "get_resume_point", phase |-> "", kind |-> "phase",
               data |-> ResumePoint(files)]
  /\ UNCHANGED <<checkpoint_enabled, files, ck, savers, nSaves, lastSaved>>
  /\ UNCHANGED <<limVars, execVars, retryVars, qualVars,
                 cleanVars, scoreVars, e2eVars, pipeVars,
                 trackVars, rateVars>>

CkptDirNext ==
  \/ \E s \in SaverIds, phase \in Phases : ExistsCall(s, phase)
  \/ \E s \in SaverIds, phase \in Phases : Delete(s, phase)
  \/ \E s \in SaverIds : DeleteAll(s)
  \/ \E s \in SaverIds, phase \in Phases : Load(s, phase)
  \/ \E s \in SaverIds : GetLastCheckpoint(s)
  \/ \E s \in SaverIds : GetResumePoint(s)

(***************************************************************************)
(* WorkerUtilizationTracker.  `with tracker.task():` runs __enter__, the   *)
(* body and __exit__; __enter__ and __exit__ change active_workers inside  *)
(* `with self.tracker.lock`, and `+= 1` reads and stores in two steps.     *)
(***************************************************************************)
MaxTrackers == 3
TrkThreads == 1..MaxTrackers

\* parallel.py 307-309
TrkInit ==
  /\ active_workers = 0
  /\ trk_lock = 0
  /\ tpc = [w \in TrkThreads |-> "idle"]
  /\ t_val = [w \in TrkThreads |-> 0]
  /\ t_out = [w \in TrkThreads |-> "none"]

\* a tracker no thread uses
TrkIdle == TrkInit

\* parallel.py 311-320: tracker.task() and the with statement call __enter__,
\* which reaches `with self.tracker.lock`
TrkTask(w) ==
  /\ tpc[w] = "idle"
  /\ tpc' = [tpc EXCEPT ![w] = "e_acquire"]
  /\ t_out' = [t_out EXCEPT ![w] = "none"]
  /\ UNCHANGED <<active_workers, trk_lock, t_val>>
  /\ UNCHANGED <<limVars, execVars, ckptVars, retryVars, qualVars,
                 cleanVars, scoreVars, e2eVars, pipeVars, rateVars>>

TrkAcquireNoLock(w) ==
  /\ tpc[w] \in {"e_acquire", "x_acquire"}
  /\ trk_lock' = w
  /\ tpc' = [tpc EXCEPT ![w] = IF tpc[w] = "e_acquire" THEN "e_load" ELSE "x_load"]
  /\ UNCHANGED <<active_workers, t_val, t_out>>
  /\ UNCHANGED <<limVars, execVars, ckptVars, retryVars, qualVars,
                 cleanVars, scoreVars, e2eVars, pipeVars, rateVars>>

\* lines 320 and 324: the lock is taken when it is free
TrkAcquire(w) ==
  /\ tpc[w] \in {"e_acquire", "x_acquire"}
  /\ trk_lock = 0
  /\ trk_lock' = w
  /\ tpc' = [tpc EXCEPT ![w] = IF tpc[w] = "e_acquire" THEN "e_load" ELSE "x_load"]
  /\ UNCHANGED <<active_workers, t_val, t_out>>
  /\ UNCHANGED <<limVars, execVars, ckptVars, retryVars, qualVars,
                 cleanVars, scoreVars, e2eVars, pipeVars, rateVars>>

\* lines 321 and 325: the attribute is read
TrkLoad(w) ==
  /\ tpc[w] \in {"e_load", "x_load"}
  /\ t_val' = [t_val EXCEPT ![w] = active_workers]
  /\ tpc' = [tpc EXCEPT ![w] = IF tpc[w] = "e_load" THEN "e_store" ELSE "x_store"]
  /\ UNCHANGED <<active_workers, trk_lock, t_out>>
  /\ UNCHANGED <<limVars, execVars, ckptVars, retryVars, qualVars,
                 cleanVars, scoreVars, e2eVars, pipeVars, rateVars>>

\* lines 321 and 325: the sum, or the difference, is stored
TrkStore(w) ==
  /\ tpc[w] \in {"e_store", "x_store"}
  /\ active_workers' = IF tpc[w] = "e_store" THEN t_val[w] + 1 ELSE t_val[w] - 1
  /\ tpc' = [tpc EXCEPT ![w] = IF tpc[w] = "e_store" THEN "e_release" ELSE "x_release"]
  /\ UNCHANGED <<trk_lock, t_val, t_out>>
  /\ UNCHANGED <<limVars, execVars, ckptVars, retryVars, qualVars,
                 cleanVars, scoreVars, e2eVars, pipeVars, rateVars>>

\* the lock is released; __enter__ returns into the body, __exit__ returns
\* None, so an exception of the body goes on to the caller
TrkRelease(w) ==
  /\ tpc[w] \in {"e_release", "x_release"}
  /\ trk_lock' = 0
  /\ tpc' = [tpc EXCEPT ![w] = IF tpc[w] = "e_release" THEN "body" ELSE "idle"]
  /\ t_out' = [t_out EXCEPT ![w] =
                 IF tpc[w] = "e_release" THEN t_out[w]
                 ELSE IF t_out[w] = "raising" THEN "raised" ELSE "returned"]
  /\ UNCHANGED <<active_workers, t_val>>
  /\ UNCHANGED <<limVars, execVars, ckptVars, retryVars, qualVars,
                 cleanVars, scoreVars, e2eVars, pipeVars, rateVars>>

\* the body of the with block ends, normally or with an exception, and the
\* with statement calls __exit__ (line 323)
TrkBody(w, raises) ==
  /\ tpc[w] = "body"
  /\ tpc' = [tpc EXCEPT ![w] = "x_acquire"]
  /\ t_out' = [t_out EXCEPT ![w] = IF raises THEN "raising" ELSE "returning"]
  /\ UNCHANGED <<active_workers, trk_lock, t_val>>
  /\ UNCHANGED <<limVars, execVars, ckptVars, retryVars, qualVars,
                 cleanVars, scoreVars, e2eVars, pipeVars, rateVars>>

TrkNext ==
  \/ \E w \in TrkThreads : TrkTask(w)
  \/ \E w \in TrkThreads : TrkAcquire(w)
  \/ \E w \in TrkThreads : TrkLoad(w)
  \/ \E w \in TrkThreads : TrkStore(w)
  \/ \E w \in TrkThreads : TrkRelease(w)
  \/ \E w \in TrkThreads, raises \in BOOLEAN : TrkBody(w, raises)

(***************************************************************************)
(* ParallelExecutor.map_with_rate_limit.  With a limiter the items are     *)
(* mapped with wrapped_func, which asks the limiter and then calls func;   *)
(* without one they are mapped with func.  The steps of map and of         *)
(* wait_if_needed are those of the executor and of the limiter above.      *)
(***************************************************************************)
\* token_estimator: None, or a function of the item
Estimators ==
  {[given |-> FALSE, of |-> [x \in ItemVals |-> 0]],
   [given |-> TRUE, of |-> [x \in ItemVals |-> IF x = 1 THEN 0 ELSE MaxTokens]]}
RmFuncs == [ItemVals -> {"a", "Raise"}]
RmItems == {q \in SeqsUpTo(ItemVals, MaxItems - 1) : q # <<>>}

\* the executor that is given the items
RmExecInit ==
  /\ fn \in RmFuncs
  /\ items \in RmItems
  /\ max_workers = 1
  /\ enable_parallel = TRUE
  /\ mpc = "idle"
  /\ results = <<>>
  /\ task = <<>>
  /\ mapHist = {}
  /\ doneOrder = <<>>

RmInit ==
  /\ rm_limiter \in BOOLEAN
  /\ rm_estimator \in Estimators
  /\ rm_stage = [i \in 1..Len(items) |-> "new"]
  /\ rm_thread = [i \in 1..Len(items) |-> 0]
  /\ rm_waits = [i \in 1..Len(items) |-> <<>>]

\* map_with_rate_limit is not called
RmIdle ==
  /\ rm_limiter = FALSE
  /\ rm_estimator = [given |-> FALSE, of |-> [x \in ItemVals |-> 0]]
  /\ rm_stage = <<>>
  /\ rm_thread = <<>>
  /\ rm_waits = <<>>

\* parallel.py 213-226: both branches end in self.map, with func or with
\* wrapped_func
RmCall(w, par) ==
  /\ mpc = "idle"
  /\ MapCall(w, par)

\* a thread has been given item i and has not yet left the function mapped
InCall(i) ==
  IF mpc = "seq" THEN i = Len(results) + 1
  ELSE i \in 1..Len(task) /\ task[i] = "running"

\* line 218: token_estimator(item) if token_estimator else 0
EstimatedTokens(i) == IF rm_estimator.given THEN rm_estimator.of[items[i]] ELSE 0

\* the pool thread, or the caller of a sequential map, that runs the call
FreeThread(i, t) ==
  IF mpc = "seq" THEN t = 1
  ELSE \A j \in DOMAIN rm_thread : (j # i /\ rm_thread[j] = t) => ~InCall(j)

\* lines 216-221: wrapped_func computes the tokens and calls
\* self.rate_limiter.wait_if_needed(tokens), which reaches `with self.lock`
RmWait(i, t) ==
  /\ rm_limiter
  /\ i \in DOMAIN rm_stage
  /\ InCall(i)
  /\ rm_stage[i] = "new"
  /\ FreeThread(i, t)
  /\ lpc[t] = "idle"
  /\ lpc' = [lpc EXCEPT ![t] = "lock"]
  /\ l_tokens' = [l_tokens EXCEPT ![t] = EstimatedTokens(i)]
  /\ l_wait_time' = [l_wait_time EXCEPT ![t] = 0]
  /\ rm_stage' = [rm_stage EXCEPT ![i] = "waiting"]
  /\ rm_thread' = [rm_thread EXCEPT ![i] = t]
  /\ rm_waits' = [rm_waits EXCEPT ![i] = Append(rm_waits[i], EstimatedTokens(i))]
  /\ UNCHANGED <<rpm, tpm, request_times, token_counts, lock, now,
                 l_current_time, recorded>>
  /\ UNCHANGED <<rm_limiter, rm_estimator>>
  /\ UNCHANGED <<execVars, ckptVars, retryVars, qualVars,
                 cleanVars, scoreVars, e2eVars, pipeVars, trackVars>>

RmInvokeEarly(i) ==
  /\ i \in DOMAIN rm_stage
  /\ rm_stage[i] = "waiting"
  /\ rm_stage' = [rm_stage EXCEPT ![i] = "fn"]
  /\ UNCHANGED <<rm_limiter, rm_estimator, rm_thread, rm_waits>>
  /\ UNCHANGED <<limVars, execVars, ckptVars, retryVars, qualVars,
                 cleanVars, scoreVars, e2eVars, pipeVars, trackVars>>

\* line 224: wait_if_needed has returned and wrapped_func calls func(item)
RmInvoke(i) ==
  /\ i \in DOMAIN rm_stage
  /\ rm_stage[i] = "waiting"
  /\ lpc[rm_thread[i]] = "idle"
  /\ rm_stage' = [rm_stage EXCEPT ![i] = "fn"]
  /\ UNCHANGED <<rm_limiter, rm_estimator, rm_thread, rm_waits>>
  /\ UNCHANGED <<limVars, execVars, ckptVars, retryVars, qualVars,
                 cleanVars, scoreVars, e2eVars, pipeVars, trackVars>>

\* lines 213-214: with no limiter map is given func itself, which starts at once
RmPlain(i) ==
  /\ ~rm_limiter
  /\ i \in DOMAIN rm_stage
  /\ InCall(i)
  /\ rm_stage[i] = "new"
  /\ rm_stage' = [rm_stage EXCEPT ![i] = "fn"]
  /\ UNCHANGED <<rm_limiter, rm_estimator, rm_thread, rm_waits>>
  /\ UNCHANGED <<limVars, execVars, ckptVars, retryVars, qualVars,
                 cleanVars, scoreVars, e2eVars, pipeVars, trackVars>>

\* func(item) ends in a pool thread
RmFinish(i) ==
  /\ i \in DOMAIN rm_stage
  /\ rm_stage[i] = "fn"
  /\ WorkerFinish(i)

\* func(item) ends in the list comprehension of the sequential map
RmSeqStep ==
  /\ mpc = "seq"
  /\ Len(results) < Len(items)
  /\ rm_stage[Len(results) + 1] = "fn"
  /\ SeqStep

RmNext ==
  \/ \E w \in 1..Cardinality(LimThreads), par \in BOOLEAN : RmCall(w, par)
  \/ Submit
  \/ \E i \in 1..MaxItems : WorkerStart(i)
  \/ \E i \in 1..MaxItems, t \in LimThreads : RmWait(i, t)
  \/ \E t \in LimThreads : LimEnter(t)
  \/ \E t \in LimThreads : LimWake(t)
  \/ \E t \in LimThreads : LimRecord(t)
  \/ \E to \in WakeTimes : LimSleepThrough(to)
  \/ \E i \in 1..MaxItems : RmInvoke(i)
  \/ \E i \in 1..MaxItems : RmPlain(i)
  \/ \E i \in 1..MaxItems : RmFinish(i)
  \/ RmSeqStep
  \/ SeqReturn
  \/ \E i \in 1..MaxItems : Collect(i)
  \/ ParReturn

(***************************************************************************)
(* The specifications, one per component.                                  *)
(***************************************************************************)
InitLimiter ==
  LimInit /\ ExecIdle /\ CkptIdle /\ RetryIdle /\ QualInit
    /\ ScoreIdle /\ CleanIdle /\ E2EIdle /\ PipeInit /\ TrkIdle /\ RmIdle
InitLimiterFair ==
  LimFairInit /\ ExecIdle /\ CkptIdle /\ RetryIdle /\ QualInit
    /\ ScoreIdle /\ CleanIdle /\ E2EIdle /\ PipeInit /\ TrkIdle /\ RmIdle
InitExecutor ==
  LimIdle /\ ExecInit /\ CkptIdle /\ RetryIdle /\ QualInit
    /\ ScoreIdle /\ CleanIdle /\ E2EIdle /\ PipeInit /\ TrkIdle /\ RmIdle
InitCheckpoint ==
  LimIdle /\ ExecIdle /\ CkptInit /\ RetryIdle /\ QualInit
    /\ ScoreIdle /\ CleanIdle /\ E2EIdle /\ PipeInit /\ TrkIdle /\ RmIdle
InitRetry ==
  LimIdle /\ ExecIdle /\ CkptIdle /\ RetryInit /\ QualInit
    /\ ScoreIdle /\ CleanIdle /\ E2EIdle /\ PipeInit /\ TrkIdle /\ RmIdle
InitRetryAny ==
  LimIdle /\ ExecIdle /\ CkptIdle /\ RetryAnyInit /\ QualInit
    /\ ScoreIdle /\ CleanIdle /\ E2EIdle /\ PipeInit /\ TrkIdle /\ RmIdle
InitConcurrentSaves ==
  LimIdle /\ ExecIdle /\ CkptConcInit /\ RetryIdle /\ QualInit
    /\ ScoreIdle /\ CleanIdle /\ E2EIdle /\ PipeInit /\ TrkIdle /\ RmIdle
InitDirectory ==
  LimIdle /\ ExecIdle /\ CkptDirInit /\ RetryIdle /\ QualInit
    /\ ScoreIdle /\ OtherRunsInit /\ E2EIdle /\ PipeInit /\ TrkIdle /\ RmIdle
InitTracker ==
  LimIdle /\ ExecIdle /\ CkptIdle /\ RetryIdle /\ QualInit
    /\ ScoreIdle /\ CleanIdle /\ E2EIdle /\ PipeInit /\ TrkInit /\ RmIdle
InitRateMap ==
  LimFairInit /\ RmExecInit /\ CkptIdle /\ RetryIdle /\ QualInit
    /\ ScoreIdle /\ CleanIdle /\ E2EIdle /\ PipeInit /\ TrkIdle /\ RmInit
InitQuality ==
  LimIdle /\ ExecIdle /\ CkptIdle /\ RetryIdle /\ QualInit
    /\ ScoreIdle /\ CleanIdle /\ E2EIdle /\ PipeInit /\ TrkIdle /\ RmIdle
InitExistingRun ==
  LimIdle /\ ExecIdle /\ CkptPriorInit /\ RetryIdle /\ QualInit
    /\ ScoreIdle /\ CleanIdle /\ E2EIdle /\ PipeInit /\ TrkIdle /\ RmIdle
InitScore ==
  LimIdle /\ ExecIdle /\ CkptIdle /\ RetryIdle /\ MetricsAtEnd
    /\ ScoreInit /\ CleanIdle /\ E2EIdle /\ PipeInit /\ TrkIdle /\ RmIdle
InitCleanup ==
  LimIdle /\ ExecIdle /\ CkptIdle /\ RetryIdle /\ QualInit
    /\ ScoreIdle /\ CleanInit /\ E2EIdle /\ PipeInit /\ TrkIdle /\ RmIdle
InitE2E ==
  LimIdle /\ ExecIdle /\ CkptIdle /\ RetryIdle /\ QualInit
    /\ ScoreIdle /\ CleanIdle /\ E2EInit /\ PipeInit /\ TrkIdle /\ RmIdle
InitPipeline ==
  LimIdle /\ ExecIdle /\ CkptIdle /\ RetryIdle /\ QualInit
    /\ ScoreIdle /\ CleanIdle /\ E2EIdle /\ PipeInit /\ TrkIdle /\ RmIdle

SpecLimiter == InitLimiter /\ [][LimNext]_vars
\* the scheduler is fair to a thread that can take a free lock or go on after
\* its sleep, and time passes until a running sleep is over
SpecLimiterFair ==
  /\ InitLimiterFair
  /\ [][LimFairNext]_vars
  /\ \A t \in LimThreads :
       WF_vars(LimEnter(t)) /\ WF_vars(LimWake(t)) /\ WF_vars(LimRecord(t))
  /\ WF_vars(\E to \in WakeTimes : LimSleepThrough(to))
SpecExecutor == InitExecutor /\ [][ExecNext]_vars
SpecCheckpoint == InitCheckpoint /\ [][CkptNext]_vars
SpecRetry == InitRetry /\ [][RetryNext]_vars
SpecRetryAny == InitRetryAny /\ [][RetryAnyNext]_vars
SpecConcurrentSaves == InitConcurrentSaves /\ [][CkptConcNext]_vars
SpecDirectory == InitDirectory /\ [][CkptDirNext]_vars
SpecTracker == InitTracker /\ [][TrkNext]_vars
SpecRateMap == InitRateMap /\ [][RmNext]_vars
SpecQuality == InitQuality /\ [][QualNext]_vars
SpecExistingRun == InitExistingRun /\ [][CkptPriorNext]_vars
SpecScore == InitScore /\ [][ScoreNext]_vars
SpecCleanup == InitCleanup /\ [][CleanNext]_vars
SpecE2E == InitE2E /\ [][E2ENext]_vars
SpecPipeline == InitPipeline /\ [][PipeNext]_vars

(***************************************************************************)
(* Properties of the RateLimiter, checked under SpecLimiter.               *)
(***************************************************************************)
\* the recorded requests whose timestamp lies in the closed window [e - 60 s, e]
InWindow(e) ==
  {i \in 1..Len(recorded) : recorded[i][1] >= e - Window /\ recorded[i][1] <= e}

RECURSIVE UnitsOf(_)
UnitsOf(I) ==
  IF I = {} THEN 0
  ELSE LET i == CHOOSE x \in I : TRUE IN recorded[i][2] + UnitsOf(I \ {i})

\* C1: no 60-second window contains more than rpm recorded request
\* timestamps.  A window holding some set of recorded requests can be moved to
\* end at the last of them, so the windows that end at a recorded timestamp
\* are all that need checking.
C1_RequestsPerWindow ==
  \A j \in 1..Len(recorded) : Cardinality(InWindow(recorded[j][1])) <= rpm

\* a caller found the request window full, slept, and recorded its request
C1_Witness ==
  /\ Len(recorded) = rpm + 1
  /\ \A i \in 1..Len(recorded) : recorded[i][2] = 0
  /\ \E t \in LimThreads : lpc[t] = "idle" /\ l_wait_time[t] > 0
  /\ \E i \in 1..Len(recorded) : recorded[i][1] > Window

\* C2: the token counts recorded in any 60-second window sum to at most tpm.
\* Stated here for requests that each fit the budget (a request above tpm
\* breaks the claim on its own).
C2_UnitsPerWindow ==
  (\A i \in 1..Len(recorded) : recorded[i][2] <= tpm)
    => \A j \in 1..Len(recorded) : UnitsOf(InWindow(recorded[j][1])) <= tpm

\* the thread t is between its check and the return of wait_if_needed
InSection(t) == lpc[t] \in {"sleep", "record"}

\* C19: a caller's prune-check-wait-record sequence is one critical section.
\* The caller that is between its check and its record holds the lock, no
\* other caller is there at the same time, and while it is there (asleep or
\* not) every step that changes the request window or the unit window is its
\* own step; no other caller moves, so none reads the windows either.
C19_CheckRecordAtomic ==
  [][/\ \A t \in LimThreads : InSection(t) <=> (lock = t)
     /\ \A t \in LimThreads : (lpc'[t] \in {"sleep", "record"}) <=> (lock' = t)
     /\ \A t \in LimThreads :
          (lock = t /\ <<request_times, token_counts>>' # <<request_times, token_counts>>)
            => /\ lpc'[t] # lpc[t]
               /\ \A u \in LimThreads \ {t} : lpc'[u] = lpc[u]
     /\ \A t \in LimThreads : \A u \in LimThreads \ {t} :
          lock = t => (lpc'[u] # lpc[u] => lpc[u] = "idle" /\ lpc'[u] = "lock")
    ]_vars

\* one caller sleeps inside wait_if_needed with the window full while another
\* caller has arrived and waits for the lock, and the clock has passed the
\* instant at which the oldest entry left the window
C19_Witness ==
  \E t \in LimThreads, u \in LimThreads :
    /\ lpc[t] = "sleep"
    /\ lpc[u] = "lock"
    /\ lock = t
    /\ request_times # <<>>
    /\ now > request_times[1] + Window

(***************************************************************************)
(* Properties of ParallelExecutor.map, checked under SpecExecutor.         *)
(***************************************************************************)
\* C3: the sequential path and the parallel path give the same outcome for
\* the same fn and items: every two finished map calls ended the same way
\* with the same results list.
C3_SeqParIdentical ==
  \A h1 \in mapHist, h2 \in mapHist :
    h1.status = h2.status /\ h1.results = h2.results

\* C4: when fn raises for some item, map still returns normally, the slot of
\* each raising item is None and every other slot is what fn returned.
C4_FailureIsolated ==
  (\E i \in 1..Len(items) : fn[items[i]] = "Raise")
    => /\ mpc # "raised"
       /\ mpc = "returned" =>
            \A i \in 1..Len(items) :
              results[i] = IF fn[items[i]] = "Raise" THEN None ELSE fn[items[i]]

\* C5: the list map returns has one slot per item, and slot i holds the
\* outcome of fn(items[i]), whatever the order of completion.
C5_ResultsByIndex ==
  mpc = "returned" =>
    /\ Len(results) = Len(items)
    /\ \A i \in 1..Len(items) :
         results[i] = IF fn[items[i]] = "Raise" THEN None ELSE fn[items[i]]

\* a parallel map returned after its last item completed first, with items
\* whose outcomes differ
C5_Witness ==
  /\ mpc = "returned"
  /\ Len(doneOrder) = Len(items)
  /\ Len(items) >= 2
  /\ doneOrder[1] = Len(items)
  /\ fn[items[1]] # fn[items[Len(items)]]

\* C20: during a map call of an executor with max_workers = N, at most N
\* invocations of fn are in progress at any moment.
C20_AtMostNInProgress == Cardinality(Running) <= max_workers

\* three items on a pool of two: two invocations run while the third is queued
C20_Witness ==
  /\ max_workers = 2
  /\ Len(items) = 3
  /\ Cardinality(Running) = 2
  /\ \E i \in 1..Len(task) : task[i] = "queued"

(***************************************************************************)
(* Properties of CheckpointManager, checked under SpecCheckpoint.          *)
(***************************************************************************)
InSave(s) == ck[s].pc \in {"open", "write", "rename", "saved", "crashed"}
BeforeRename(s) ==
  ck[s].pc \in {"open", "write", "rename"}
    \/ (ck[s].pc = "crashed" /\ ck[s].stage \in {"open", "write", "rename"})

\* what json gives back for a value it wrote
JsonForm(d) ==
  [i \in 1..Len(d) |-> IF d[i].ty = "tuple" THEN [ty |-> "list", v |-> d[i].v] ELSE d[i]]
JsonNative(d) == \A i \in 1..Len(d) : d[i].ty \in {"str", "list"}

\* the final file of the save under way is still what it was when save was called
FinalUntouched(s) ==
  /\ Exists(ck[s].phase) = ck[s].hadOld
  /\ ck[s].hadOld => files[Final(ck[s].phase)] = ck[s].old

\* the final file of the save under way is the complete new checkpoint
FinalIsNew(s) ==
  /\ \A i \in 1..Len(ck[s].data) : Serializable(ck[s].data[i])
  /\ Exists(ck[s].phase)
  /\ files[Final(ck[s].phase)] = Encode(ck[s].phase, ck[s].stats, ck[s].data)

\* C6: whatever point a save has reached or was interrupted at, every final
\* file <phase>.json is absent or one complete checkpoint of that phase, and
\* the file of the phase being saved is the complete old or the complete new
\* checkpoint.
C6_FinalNeverPartial ==
  /\ \A p \in Phases :
       Exists(p) => WellFormed(files[Final(p)]) /\ files[Final(p)][1].s = p
  /\ \A s \in savers : InSave(s) => FinalUntouched(s) \/ FinalIsNew(s)

\* a save that replaces an earlier checkpoint was killed with its temporary
\* file half written
C6_Witness ==
  \E s \in savers :
    /\ ck[s].pc = "crashed"
    /\ ck[s].stage = "write"
    /\ ck[s].hadOld
    /\ ck[s].pos = 2
    /\ Len(ck[s].data) >= 1
    /\ ck[s].old # Encode(ck[s].phase, ck[s].stats, ck[s].data)

\* C7 as stated: a save interrupted before the rename leaves exists(phase)
\* false; interrupted after the rename it leaves exists(phase) true and load
\* returns the full data.
C7_InterruptedSave ==
  \A s \in savers :
    ck[s].pc = "crashed" =>
      IF BeforeRename(s)
      THEN ~Exists(ck[s].phase)
      ELSE /\ Exists(ck[s].phase)
           /\ LoadResult(files, ck[s].phase).kind = "data"
           /\ LoadResult(files, ck[s].phase).data = JsonForm(ck[s].data)

\* C7 amended: a save interrupted before the rename leaves exists(phase) and
\* the checkpoint of the phase as they were when save was called.
C7_InterruptedSaveAmended ==
  \A s \in savers :
    ck[s].pc = "crashed" =>
      IF BeforeRename(s)
      THEN FinalUntouched(s)
      ELSE /\ Exists(ck[s].phase)
           /\ LoadResult(files, ck[s].phase).kind = "data"
           /\ LoadResult(files, ck[s].phase).data = JsonForm(ck[s].data)

\* a save of a phase that already had a checkpoint was killed before its rename
C7_Witness ==
  \E s \in savers :
    /\ ck[s].pc = "crashed"
    /\ ck[s].stage = "rename"
    /\ ck[s].hadOld
    /\ ck[s].old # files[Temp(ck[s].phase)]

\* C8 as stated: load returns the data of the last completed save of the phase,
\* equal to what was saved.
C8_RoundTrip ==
  (ckRet.op = "load" /\ lastSaved[ckRet.phase].has)
    => ckRet.kind = "data" /\ ckRet.data = lastSaved[ckRet.phase].data

\* C8 amended: load returns the JSON form of the data of the last completed
\* save of the phase, which is the data itself when the data is JSON-native;
\* a phase never saved loads as None.
C8_RoundTripAmended ==
  ckRet.op = "load" =>
    IF lastSaved[ckRet.phase].has
    THEN /\ ckRet.kind = "data"
         /\ ckRet.data = JsonForm(lastSaved[ckRet.phase].data)
         /\ JsonNative(lastSaved[ckRet.phase].data)
              => ckRet.data = lastSaved[ckRet.phase].data
    ELSE ckRet.kind = "none"

\* a phase is loaded after it and another phase have been saved
C8_Witness ==
  /\ ckRet.op = "load"
  /\ ckRet.kind = "data"
  /\ ckRet.data = <<PyStr>>
  /\ nSaves = MaxSaves
  /\ \E p \in Phases \ {ckRet.phase} : lastSaved[p].has

\* C9: get_last_checkpoint returns the phase of the configured order with the
\* highest position that has a checkpoint, None when none has; phases outside
\* the order do not count.
C9_LastCheckpoint ==
  ckRet.op = "get_last_checkpoint" =>
    LET have == {i \in 1..Len(CHECKPOINT_PHASES) : Exists(CHECKPOINT_PHASES[i])}
    IN IF have = {} THEN ckRet.data = <<>>
       ELSE /\ Len(ckRet.data) = 1
            /\ \E i \in have :
                 /\ ckRet.data[1] = CHECKPOINT_PHASES[i]
                 /\ \A j \in have : j <= i

\* with the first two phases saved, the second is returned
C9_Witness ==
  /\ ckRet.op = "get_last_checkpoint"
  /\ Exists(CHECKPOINT_PHASES[1])
  /\ Exists(CHECKPOINT_PHASES[2])
  /\ ckRet.data = <<CHECKPOINT_PHASES[2]>>

(***************************************************************************)
(* Properties of the retry wrappers, checked under SpecRetry.              *)
(***************************************************************************)
\* the wrapper in use retries e
Transient(e) == IF wrapperKind = "backoff" THEN e.cls \in caught ELSE Retryable(e)

\* every invocation so far failed with an error the wrapper retries
AllTransient(n) == \A i \in 1..n : ~opLog[i].ok /\ Transient(opLog[i].err)

\* C10: when func fails transiently exactly max_retries times and then
\* succeeds, the wrapper returns func's value at the invocation number
\* max_retries + 1; it has not given up during the max_retries failures.
C10_SuccessAfterRetries ==
  /\ (Len(opLog) <= max_retries /\ AllTransient(Len(opLog))) => rtpc # "raised"
  /\ (Len(opLog) = max_retries + 1 /\ AllTransient(max_retries)
        /\ opLog[max_retries + 1].ok)
       => /\ rtpc = "returned"
          /\ retResult = opLog[max_retries + 1].val
          /\ retries = max_retries
          /\ Len(sleeps) = max_retries

\* func failed max_retries >= 2 times with a retried error and then returned
C10_Witness ==
  /\ max_retries >= 2
  /\ Len(opLog) = max_retries + 1
  /\ AllTransient(max_retries)
  /\ opLog[max_retries + 1].ok
  /\ rtpc = "returned"

\* the exception has left the wrapper
Propagated == rtpc \in {"raised", "caught"}

\* the three kinds of marker retry_openai_call looks for in str(e)
RateLimitMarkers == {"429", "rate_limit"}
TimeoutMarkers == {"timeout", "timed out"}
ServerMarkers == {"500", "502", "503", "504"}
HasMarker(e) == e.msg \cap (RateLimitMarkers \cup TimeoutMarkers \cup ServerMarkers) # {}

\* the error class the spec calls Fatal, for the wrapper in use
Fatal(e) == IF wrapperKind = "backoff" THEN e.cls \notin caught ELSE ~HasMarker(e)

\* the exception says that the retries were used up
IndicatesExhaustion(e) == e.cls = "RateLimitError"

\* C11: after a call that failed transiently exactly max_retries times and
\* then succeeded, the QualityMetrics of the run count max_retries retries
\* (retries_count is 0 when the call starts).
C11_RetriesRecorded ==
  (rtpc = "returned" /\ Len(opLog) = max_retries + 1 /\ AllTransient(max_retries))
    => retries_count = max_retries

\* C12: when func fails with a retried error max_retries + 1 times in a row,
\* the failure number max_retries + 1 is the last invocation, no sleep follows
\* it, and what leaves the wrapper is that last error (or the RateLimitError
\* made from it).
C12_ExhaustionPropagates ==
  (Len(opLog) >= max_retries + 1 /\ AllTransient(max_retries + 1))
    => /\ Len(opLog) = max_retries + 1
       /\ Len(sleeps) = max_retries
       /\ rtpc \in {"except", "raised", "caught"}
       /\ Propagated => raisedErr \in {opLog[max_retries + 1].err, RateLimitError}

\* func failed max_retries + 1 >= 3 times with retried errors and the wrapper
\* has raised
C12_Witness ==
  /\ max_retries >= 2
  /\ Len(opLog) = max_retries + 1
  /\ AllTransient(max_retries + 1)
  /\ rtpc = "raised"

\* C13: a Fatal error ends the call at once: the invocation that raised it is
\* the last one, the retry counter and the number of sleeps stay at the number
\* of earlier (retried) failures, and the error itself leaves the wrapper.
C13_FatalImmediate ==
  \A i \in 1..Len(opLog) :
    (~opLog[i].ok /\ Fatal(opLog[i].err))
      => /\ i = Len(opLog)
         /\ retries = i - 1
         /\ Len(sleeps) = i - 1
         /\ rtpc \in {"except", "raised", "caught"}
         /\ Propagated => raisedErr = opLog[i].err

\* after one retried failure func raised a Fatal error, with retries to spare
C13_Witness ==
  /\ max_retries >= 2
  /\ Len(opLog) = 2
  /\ ~opLog[2].ok
  /\ Fatal(opLog[2].err)
  /\ rtpc = "raised"

\* C14: when the retried failures exceed max_retries, the exception that
\* leaves the wrapper says that the retries were used up.
C14_ExhaustionWrapped ==
  (Propagated /\ Len(opLog) = max_retries + 1 /\ AllTransient(max_retries + 1))
    => IndicatesExhaustion(raisedErr)

\* C15: retry_openai_call retries a failure exactly when the message carries
\* one of the markers.  A handled failure has consumed a retry (retries >= i)
\* iff it carries a marker; without a marker it is the last invocation and no
\* sleep follows it; with a marker and retries left, a sleep follows it.
C15_MarkerClassification ==
  wrapperKind = "openai" =>
    \A i \in 1..Len(opLog) :
      (~opLog[i].ok /\ (i < Len(opLog) \/ rtpc # "except"))
        => /\ HasMarker(opLog[i].err) <=> retries >= i
           /\ ~HasMarker(opLog[i].err) => i = Len(opLog) /\ Len(sleeps) < i
           /\ (HasMarker(opLog[i].err) /\ i <= max_retries) => Len(sleeps) >= i

\* a rate-limit, a timeout and a server error were each retried, then an
\* error without marker ended the call while retries were left
C15_Witness ==
  /\ wrapperKind = "openai"
  /\ max_retries >= 4
  /\ Len(opLog) = 4
  /\ \E i \in 1..3 : opLog[i].err.msg \cap RateLimitMarkers # {}
  /\ \E i \in 1..3 : opLog[i].err.msg \cap TimeoutMarkers # {}
  /\ \E i \in 1..3 : opLog[i].err.msg \cap ServerMarkers # {}
  /\ ~opLog[4].ok
  /\ ~HasMarker(opLog[4].err)
  /\ rtpc = "raised"

\* the sleeps never exceed max_wait and, for backoff_factor >= 1, never shrink
SleepsBounded ==
  /\ \A k \in 1..Len(sleeps) : sleeps[k] <= max_wait
  /\ backoff_factor >= 1 =>
       \A k \in 1..(Len(sleeps) - 1) : sleeps[k] <= sleeps[k + 1]

C17_RateLimitWait ==
  wrapperKind = "openai" =>
    \A k \in 1..Len(sleeps) :
      LET plain == Min(Pow(RETRY_BACKOFF_FACTOR, k), RETRY_MAX_WAIT)
          doubled == Min(2 * Pow(RETRY_BACKOFF_FACTOR, k), RETRY_MAX_WAIT)
      IN /\ sleeps[k] = IF opLog[k].err.msg \cap RateLimitMarkers # {}
                        THEN doubled ELSE plain
         /\ doubled >= plain
         /\ sleeps[k] <= RETRY_MAX_WAIT

\* attempt 1 failed for a timeout and attempt 2 for a rate limit (sleeps 2 s
\* and 8 s), and the rate-limit sleep of attempt 5 was cut to max_wait
C17_Witness ==
  /\ wrapperKind = "openai"
  /\ Len(sleeps) >= 5
  /\ opLog[1].err.msg \cap TimeoutMarkers # {}
  /\ opLog[2].err.msg \cap RateLimitMarkers # {}
  /\ sleeps[1] = 2
  /\ sleeps[2] = 8
  /\ opLog[5].err.msg \cap RateLimitMarkers # {}
  /\ sleeps[5] = RETRY_MAX_WAIT

(***************************************************************************)
(* Properties of QualityMetrics, checked under SpecQuality.                *)
(***************************************************************************)
\* C18: no update is lost: once every add_* call that was started has
\* returned, each counter equals the number of calls of its methods and each
\* list has one entry per call.
C18_NoLostUpdate ==
  (\A w \in QWorkers : qpc[w] = "idle")
    => /\ errors_count = qDone["add_parsing_error"] + qDone["add_api_error"]
       /\ retries_count = qDone["add_retry"]
       /\ malformed_beliefs_count = qDone["add_malformed_belief"]
       /\ registry_mismatches_count = qDone["add_registry_mismatch"]
       /\ Len(parsing_errors) = qDone["add_parsing_error"]
       /\ Len(api_errors) = qDone["add_api_error"]
       /\ Len(warnings) = qDone["add_warning"]

(***************************************************************************)
(* Claims about a checkpoint manager on an existing directory.             *)
(***************************************************************************)
\* what exists(phase) and load(phase) would answer on the directory f
Observed(f) ==
  [p \in Phases |-> [exists |-> Final(p) \in DOMAIN f, load |-> LoadResult(f, p)]]

\* C21: with checkpointing disabled, a call of save creates, changes and deletes
\* no file (exists and load answer for every phase as before), starts no write
\* and returns None.
C21_DisabledSaveNoOp ==
  [][(~checkpoint_enabled /\ nSaves' = nSaves + 1) =>
       /\ files' = files
       /\ Observed(files') = Observed(files)
       /\ ck' = ck
       /\ ckRet'.op = "save" /\ ckRet'.kind = "none"]_vars

C21_Witness ==
  /\ ~checkpoint_enabled
  /\ nSaves > 0
  /\ ckRet.op = "save" /\ ckRet.kind = "none"
  /\ Final("utterances") \in DOMAIN files
  /\ \A s \in savers : ck[s].pc = "idle"

\* a document with a metadata part at its head and a closed data part at its
\* end, and nothing but records between them
Shaped(c) ==
  /\ c # <<>>
  /\ Head(c).tok = "meta"
  /\ c[Len(c)].tok = "end"
  /\ \A i \in 1..Len(c) : (1 < i /\ i < Len(c)) => c[i].tok = "elem"

\* C22: load(phase) returns None when the phase has no checkpoint file, and
\* raises CheckpointError whenever the file exists but is not a well-formed
\* checkpoint with a metadata part and a data part.
C22_LoadAbsentOrMalformed ==
  ckRet.op = "load" =>
    /\ Final(ckRet.phase) \notin DOMAIN files => ckRet.kind = "none"
    /\ (Final(ckRet.phase) \in DOMAIN files /\ ~Shaped(files[Final(ckRet.phase)]))
         => ckRet.kind = "CheckpointError"

C22_Witness ==
  /\ ckRet.op = "load"
  /\ ckRet.kind = "CheckpointError"
  /\ Final(ckRet.phase) \in DOMAIN files
  /\ Head(files[Final(ckRet.phase)]).tok = "meta"
  /\ files[Final(ckRet.phase)][Len(files[Final(ckRet.phase)])].tok = "close"

\* C29: a save that ends without reaching the rename's success raises
\* CheckpointError to its caller and leaves the final file of the phase as it
\* was before the call; a load that cannot return the data of an existing
\* file raises CheckpointError.
C29_FailurePropagates ==
  [][/\ \A s \in savers :
          (ck[s].pc \in {"open", "write", "rename"} /\ ck'[s].pc = "idle") =>
            /\ ckRet' = [op |-> "save", phase |-> ck[s].phase,
                         kind |-> "CheckpointError", data |-> <<>>]
            /\ (Final(ck[s].phase) \in DOMAIN files') = ck[s].hadOld
            /\ ck[s].hadOld => files'[Final(ck[s].phase)] = ck[s].old
            /\ Observed(files')[ck[s].phase] = Observed(files)[ck[s].phase]
     /\ (ckRet'.op = "load" /\ ckRet' # ckRet /\ Final(ckRet'.phase) \in DOMAIN files
           /\ ckRet'.kind # "data") => ckRet'.kind = "CheckpointError"]_vars

C29_Witness ==
  /\ ckRet.op = "save"
  /\ ckRet.kind = "CheckpointError"
  /\ Temp(ckRet.phase) \in DOMAIN files
  /\ WellFormed(files[Temp(ckRet.phase)])
  /\ Final(ckRet.phase) \in DOMAIN files
  /\ files[Final(ckRet.phase)] # files[Temp(ckRet.phase)]

(***************************************************************************)
(* Claims about the quality score and grade.                               *)
(***************************************************************************)
\* C25: the score is max(0, 100 - errors*W_err - retries*W_retry
\* - malformed*W_mal - mismatches*W_mis) for every counter state, lies in
\* [0, 100], and is 95.5 for 2 errors and 1 retry (all in tenths of a point).
C25_ScoreFormula ==
  spc # "idle" =>
    LET raw == 1000 - errors_count * QUALITY_PENALTY_ERROR
                 - retries_count * QUALITY_PENALTY_RETRY
                 - malformed_beliefs_count * QUALITY_PENALTY_MALFORMED
                 - registry_mismatches_count * QUALITY_PENALTY_MISMATCH
    IN /\ score = (IF raw < 0 THEN 0 ELSE raw)
       /\ 0 <= score /\ score <= 1000
       /\ (errors_count = 2 /\ retries_count = 1 /\ malformed_beliefs_count = 0
             /\ registry_mismatches_count = 0) => score = 955

C25_Witness ==
  /\ spc = "scored"
  /\ score = 0
  /\ errors_count * QUALITY_PENALTY_ERROR + retries_count * QUALITY_PENALTY_RETRY > 1000

\* the grade of the largest cutoff the score satisfies, F when there is none
ByDescending(sc, th) ==
  LET sat == {g \in DOMAIN th : sc >= th[g]}
  IN IF sat = {} THEN "F"
     ELSE CHOOSE g \in sat : \A h \in sat : th[g] >= th[h]

\* C26: for every configured set of cutoffs the grade is the one of the first
\* cutoff, taken in descending order of value, that the score satisfies, F when
\* none is satisfied, and always one of A, B, C, D, F.
C26_GradeLookup ==
  spc = "graded" =>
    /\ grade = ByDescending(score, thresholds)
    /\ grade \in {"A", "B", "C", "D", "F"}

(***************************************************************************)
(* Claims about cleanup_old_checkpoints.                                   *)
(***************************************************************************)
\* the run directories cleanup found, and their age in days when it ran
RunDirs == {d \in DOMAIN cl_before : cl_before[d].kind = "dir"}
Age(d) == ClockNow - cl_before[d].mtime
Checkpoints(fs) == {f \in fs : f[2] = "json"}
\* no checkpoint of run directory d is left
CheckpointsDeleted(d) == d \in DOMAIN entries => Checkpoints(entries[d].files) = {}
Untouched(d) == d \in DOMAIN entries /\ entries[d] = cl_before[d]

\* C23: cleanup_old_checkpoints(30) deletes the checkpoints of every run
\* directory modified 30 days ago or earlier, and leaves every newer run
\* directory and its files as they were.
C23_CleanupThirtyDays ==
  (cl_pc = "returned" /\ cl_days = 30) =>
    \A d \in RunDirs :
      /\ Age(d) >= 30 => CheckpointsDeleted(d)
      /\ Age(d) < 30 => Untouched(d)

\* C23, amended: the checkpoints of every run directory modified more than 30
\* days ago are deleted; a directory modified 30 days ago or later is left as
\* it was.
C23_CleanupThirtyDaysAmended ==
  (cl_pc = "returned" /\ cl_days = 30) =>
    \A d \in RunDirs :
      /\ Age(d) > 30 => CheckpointsDeleted(d)
      /\ Age(d) <= 30 => Untouched(d)

C23_Witness ==
  /\ cl_pc = "returned"
  /\ cl_days = 30
  /\ \E d \in RunDirs :
       Age(d) = 30 /\ Checkpoints(cl_before[d].files) # {} /\ Untouched(d)
  /\ \E d \in RunDirs :
       Age(d) = 31 /\ Checkpoints(cl_before[d].files) # {} /\ d \notin DOMAIN entries

\* C24: every run directory older than the cutoff loses all its checkpoint
\* files and is itself removed, also when it holds the temporary file of an
\* interrupted save.
C24_OldDirectoryRemoved ==
  (cl_pc = "returned" /\ cl_days > 0) =>
    \A d \in RunDirs :
      cl_before[d].mtime < ClockNow - cl_days => d \notin DOMAIN entries

(***************************************************************************)
(* Claims about the extraction stage end to end.                           *)
(***************************************************************************)
Nulls == {i \in DOMAIN e_results : e_results[i] = None}

\* C27: mapping the items with the pool, where 2 items always fail with a
\* Fatal error and 1 item fails FlakyFailures (2) times transiently and then
\* succeeds, returns a list with 2 null entries and non-null entries for all
\* other items, and leaves the retry count at 2 and the error count at 2.
C27_EndToEnd ==
  (e_pc = "returned" /\ CountKind(e_kind, "fatal") = 2
     /\ CountKind(e_kind, "flaky") = 1) =>
    /\ Len(e_results) = Len(e_kind)
    /\ Cardinality(Nulls) = 2
    /\ Cardinality(DOMAIN e_results \ Nulls) = Len(e_kind) - 2
    /\ retries_count = FlakyFailures
    /\ errors_count = 2

(***************************************************************************)
(* Claims about run_pipeline started again on the directory of a run.      *)
(***************************************************************************)
\* C28: a pipeline restarted (with --resume) for a run that already has
\* checkpoints executes no stage whose checkpoint is the last completed phase
\* or an earlier phase.
C28_ResumeSkipsCompleted ==
  (pl_run > 1 /\ pl_resume /\ pl_last > 0) => \A k \in pl_exec : k > pl_last

(***************************************************************************)
(* Claims about the wait wait_if_needed computes.                          *)
(***************************************************************************)
KeptTime(x) == now - x <= Window
KeptEntry(e) == now - e[1] <= Window

\* the wait the two windows call for now, where over tells whether the unit
\* budget counts as exceeded and oldest_unit is the time the unit wait is
\* taken from
ExpectedWait(over, oldest_unit) ==
  LET rq == SelectSeq(request_times, KeptTime)
      rpm_wait == IF Len(rq) >= rpm THEN Window - (now - rq[1]) + Margin ELSE 0
      tpm_wait == IF over THEN Window - (now - oldest_unit) + Margin ELSE 0
  IN IF rpm_wait >= tpm_wait THEN rpm_wait ELSE tpm_wait

\* the steps of a caller after it has the lock: one sleep at most, which lasts
\* the computed wait, and the computed wait is what the call returns
OneSleep(t) ==
  /\ lpc[t] = "sleep" => lpc'[t] \in {"sleep", "record"}
  /\ (lpc[t] = "sleep" /\ lpc'[t] = "record") =>
       now >= l_current_time[t] + l_wait_time[t]
  /\ lpc[t] = "record" => lpc'[t] \in {"record", "idle"}
  /\ lpc[t] \in {"sleep", "record"} => l_wait_time'[t] = l_wait_time[t]

NoLimiterError ==
  /\ rpm >= 1 /\ tpm >= 1
  /\ \A t \in LimThreads :
       /\ (lpc[t] = "lock" /\ Len(SelectSeq(request_times, KeptTime)) >= rpm)
            => SelectSeq(request_times, KeptTime) # <<>>
       /\ l_wait_time[t] >= 0

\* C31: for positive limits no call of wait_if_needed raises, the wait of a
\* call is at most 60 seconds plus the 0.1 s margin, and under a fair
\* scheduler every caller eventually records its request and returns.
C31_AlwaysReturns ==
  /\ [](NoLimiterError /\ \A t \in LimThreads : l_wait_time[t] <= Window + Margin)
  /\ \A t \in LimThreads : (lpc[t] # "idle") ~> (lpc[t] = "idle")

\* all callers have returned, one of them after the longest wait there is and
\* one after waiting for the lock the sleeper held
C31_Witness ==
  /\ \A t \in LimThreads : lpc[t] = "idle"
  /\ Len(recorded) = MaxCalls
  /\ \E t \in LimThreads : l_wait_time[t] = Window + Margin
  /\ \E i \in 1..Len(recorded) : recorded[i][1] > Window

RECURSIVE IsSuffix(_, _)
IsSuffix(s, q) == s = q \/ (q # <<>> /\ IsSuffix(s, Tail(q)))
NonDecreasing(ts) == \A i \in 1..Len(ts) : \A j \in i..Len(ts) : ts[i] <= ts[j]
WithUnits(e) == e[2] > 0

\* C32: both windows are in non-decreasing timestamp order, and every
\* completed call is in the request window once, and in the unit window once
\* with its tokens if it asked for any, until it is pruned from the old end.
C32_WindowsOrderedOnce ==
  /\ NonDecreasing(request_times)
  /\ NonDecreasing([i \in 1..Len(token_counts) |-> token_counts[i][1]])
  /\ IsSuffix(request_times, [i \in 1..Len(recorded) |-> recorded[i][1]])
  /\ IsSuffix(token_counts, SelectSeq(recorded, WithUnits))

C32_Witness ==
  /\ Len(recorded) = MaxCalls
  /\ \E i \in 1..Len(recorded) : recorded[i][2] = 0
  /\ Len(token_counts) >= 1
  /\ Len(request_times) > Len(token_counts)
  /\ Len(request_times) < Len(recorded)

(***************************************************************************)
(* The rate limiter of the extraction stage.  extract (extractor.py 59-66)  *)
(* builds a RateLimiter, hands it to the ParallelExecutor and calls         *)
(* executor.map, which never reads self.rate_limiter (parallel.py 145-192); *)
(* _extract_from_utterance (extractor.py 99-118) calls the service          *)
(* directly.  The extraction actions therefore leave the limiter alone.     *)
(***************************************************************************)
RECURSIVE CallsUpTo(_, _)
CallsUpTo(tasks, n) == IF n = 0 THEN 0 ELSE tasks[n].calls + CallsUpTo(tasks, n - 1)
ExternalCalls == CallsUpTo(e_task, Len(e_task))

\* C34: in the extraction stage every call of the external service is
\* preceded by a clearance request to the run's rate limiter, so the limiter
\* has recorded one request for each external call made so far.
C34_ClearanceBeforeCall ==
  e_func = "extract_batch" => Len(recorded) = ExternalCalls

(***************************************************************************)
(* Claims about the number of invocations and the way a wrapped call ends, *)
(* checked under SpecRetryAny and SpecRetry.                               *)
(***************************************************************************)
LastCall == opLog[Len(opLog)]

\* C39: for max_retries >= 0 and whatever the operation does, the wrapper
\* invokes it at least once and at most max_retries + 1 times, sleeps exactly
\* once between two consecutive invocations, and ends by returning the
\* operation's value or by raising an error that came from the operation's
\* last failure; the RuntimeError after the loop is never raised.
C39_InvocationsBounded ==
  max_retries >= 0 =>
    /\ Len(opLog) <= max_retries + 1
    /\ rtpc \in {"call", "sleep"} => Len(sleeps) = Len(opLog)
    /\ rtpc \notin {"call", "sleep"} => Len(sleeps) = Len(opLog) - 1
    /\ rtpc = "returned" => LastCall.ok /\ retResult = LastCall.val
    /\ rtpc = "raised" =>
         /\ ~LastCall.ok
         /\ raisedErr = LastCall.err
              \/ (wrapperKind = "openai" /\ raisedErr = RateLimitError)
    /\ raisedErr # RuntimeErr

\* every allowed invocation was made and failed, with a sleep between each two
C39_Witness ==
  /\ rtpc = "raised"
  /\ max_retries >= 2
  /\ Len(opLog) = max_retries + 1
  /\ Len(sleeps) = max_retries

\* C40: in retry_openai_call every transient failure, of whatever kind, adds
\* one to the same counter; a Fatal failure after k transient ones propagates
\* unwrapped after k + 1 invocations; and when the retries are used up the
\* error raised is RateLimitError exactly when the last failure was classified
\* as a rate limit, the original error otherwise.
C40_SharedCounter ==
  wrapperKind = "openai" =>
    /\ \A i \in 1..(Len(opLog) - 1) : ~opLog[i].ok /\ ~Fatal(opLog[i].err)
    /\ rtpc \in {"call", "sleep"} => retries = Len(opLog)
    /\ rtpc \in {"except", "returned"} => retries = Len(opLog) - 1
    /\ rtpc = "raised" =>
         IF Fatal(LastCall.err)
         THEN /\ raisedErr = LastCall.err
              /\ retries = Len(opLog) - 1
              /\ retries <= max_retries
         ELSE /\ Len(opLog) = max_retries + 1
              /\ retries = Len(opLog)
              /\ raisedErr = RateLimitError <=> LastCall.err.msg \cap RateLimitMarkers # {}
              /\ raisedErr # RateLimitError => raisedErr = LastCall.err

\* the retries are used up by failures of all three kinds, a rate limit among
\* the earlier ones, and the last failure is a timeout, raised as it is
C40_Witness ==
  /\ wrapperKind = "openai"
  /\ rtpc = "raised"
  /\ Len(opLog) = max_retries + 1
  /\ \E i \in 1..(Len(opLog) - 1) : opLog[i].err.msg \cap RateLimitMarkers # {}
  /\ \E i \in 1..(Len(opLog) - 1) : opLog[i].err.msg \cap ServerMarkers # {}
  /\ LastCall.err.msg \cap TimeoutMarkers # {}
  /\ raisedErr = LastCall.err

(***************************************************************************)
(* Two saves of the same phase at the same time, checked under             *)
(* SpecConcurrentSaves.                                                    *)
(***************************************************************************)
AllSerializable(d) == \A i \in 1..Len(d) : Serializable(d[i])
CompleteCheckpoint(p, c) ==
  \E d \in DataLists, st \in StatsArgs : AllSerializable(d) /\ c = Encode(p, st, d)

\* C35: with two saves of the same run and phase under way (each meant to
\* have a temporary file of its own), the phase file, when there is one, is
\* in every interleaving a complete checkpoint written by one save, never
\* truncated or mixed content.
C35_ConcurrentSavesWhole ==
  \A p \in Phases : Exists(p) => CompleteCheckpoint(p, files[Final(p)])

(***************************************************************************)
(* delete, delete_all and get_resume_point, checked under SpecDirectory.   *)
(***************************************************************************)
\* C36: delete(phase) leaves no checkpoint of the phase (exists is false and
\* load gives None), leaves every other file of the run as it was and is a
\* no-op without a checkpoint of the phase; delete_all leaves no checkpoint of
\* any phase, so that get_last_checkpoint gives None; neither touches the
\* directories of other runs.
C36_DeleteFrame ==
  [][/\ ckRet'.op = "delete" =>
          /\ Final(ckRet'.phase) \notin DOMAIN files'
          /\ LoadResult(files', ckRet'.phase).kind = "none"
          /\ files' = Remove(files, Final(ckRet'.phase))
          /\ ~Exists(ckRet'.phase) => files' = files
          /\ entries' = entries
     /\ ckRet'.op = "delete_all" =>
          /\ \A ph \in Phases : Final(ph) \notin DOMAIN files'
          /\ LastFrom(files', Len(CHECKPOINT_PHASES)) = <<>>
          /\ entries' = entries]_vars

\* a checkpoint was deleted and checkpoints of two other phases are still
\* there, next to the directory of another run
C36_Witness ==
  /\ ckRet.op = "delete"
  /\ ck[1].hadOld /\ ck[1].phase = ckRet.phase
  /\ ~Exists(ckRet.phase)
  /\ Cardinality({ph \in Phases : Exists(ph)}) >= 2
  /\ entries # <<>>

\* C38: get_resume_point returns what get_last_checkpoint returns for the
\* run, the last phase of the configured order that has a checkpoint and not
\* the one after it, and None exactly when no phase of the order has one.
C38_ResumePointIsLast ==
  ckRet.op = "get_resume_point" =>
    LET have == {i \in 1..Len(CHECKPOINT_PHASES) : Exists(CHECKPOINT_PHASES[i])}
    IN /\ ckRet.data = LastFrom(files, Len(CHECKPOINT_PHASES))
       /\ ckRet.data = <<>> <=> have = {}
       /\ have # {} => \E i \in have : /\ ckRet.data = <<CHECKPOINT_PHASES[i]>>
                                       /\ \A j \in have : j <= i

\* the second phase is the last with a checkpoint, the first has none
C38_Witness ==
  /\ ckRet.op = "get_resume_point"
  /\ ckRet.data = <<CHECKPOINT_PHASES[2]>>
  /\ ~Exists(CHECKPOINT_PHASES[1])
  /\ Exists("notes")

(***************************************************************************)
(* WorkerUtilizationTracker, checked under SpecTracker.                    *)
(***************************************************************************)
\* thread w has added itself to the count and not taken itself off yet
InScope(w) == tpc[w] \in {"e_release", "body", "x_acquire", "x_load", "x_store"}

\* C37: active_workers is, under any interleaving, the number of tasks inside
\* a task() scope: one more after each entry, one less after each exit, by a
\* normal end of the body or by an exception; never negative, and 0 when every
\* task has left.
C37_ActiveWorkersCount ==
  /\ active_workers = Cardinality({w \in TrkThreads : InScope(w)})
  /\ active_workers >= 0
  /\ (\A w \in TrkThreads : tpc[w] = "idle") => active_workers = 0

\* all threads but one are inside their bodies, the last has left a body that
\* raised, and one more is on its way out
C37_Witness ==
  /\ active_workers = MaxTrackers - 1
  /\ \E w \in TrkThreads : tpc[w] = "idle" /\ t_out[w] = "raised"
  /\ \E w \in TrkThreads : tpc[w] = "body"
  /\ \E w \in TrkThreads : tpc[w] = "x_acquire" /\ t_out[w] = "raising"

(***************************************************************************)
(* map_with_rate_limit, checked under SpecRateMap.                         *)
(***************************************************************************)
Started(i) == rm_stage[i] = "fn"
Sequential == ~enable_parallel \/ max_workers = 1

====
